---- MODULE Spec2Model ----
(***************************************************************************)
(* Model of the BWR bulletin generator (src/bwr_generator.py).             *)
(*                                                                         *)
(* Representation.  A CSV field is the tuple of its characters, so that    *)
(* int() and float() are computed from the characters.  A text (a report,  *)
(* the output file) is the tuple of its lines: "\n".join is concatenation  *)
(* of such tuples.  A float is [kind, val]: a finite value in fixed point,  *)
(* or a nan / an infinity.                                                 *)
(***************************************************************************)
EXTENDS Integers, Sequences, FiniteSets, TLC

(***************************************************************************)
(* Bounds of the model.                                                    *)
(***************************************************************************)
MaxRows == 2        \* data rows in the dataset file
MaxCalls == 2       \* calls of generate_reports
MaxPoints == 3      \* samples of a profile given to the layer loop
MaxClicks == 2      \* clicks on the button 'Wykonaj'

(***************************************************************************)
(* Characters and strings.                                                 *)
(***************************************************************************)
\* The element of a singleton.  The({F(x) : x \in {e}}) is F(e) with e
\* evaluated once, whatever the number of times F uses it.
The(S) == CHOOSE x \in S : TRUE

DigitChars == <<"0", "1", "2", "3", "4", "5", "6", "7", "8", "9">>

IsDigit(c) == \E i \in 1..10 : DigitChars[i] = c

DigitVal(c) == (CHOOSE i \in 1..10 : DigitChars[i] = c) - 1

\* str(n) for n >= 0, as characters
RECURSIVE Digits(_)
Digits(n) == IF n < 10 THEN <<DigitChars[n + 1]>>
             ELSE Digits(n \div 10) \o <<DigitChars[(n % 10) + 1]>>

\* the characters of a field as one string
RECURSIVE Str(_)
Str(cs) == IF cs = <<>> THEN "" ELSE Head(cs) \o Str(Tail(cs))

\* format(n, "0{w}d") for n >= 0: at least w digits, zero padded
RECURSIVE ZeroPad(_, _)
ZeroPad(cs, w) == IF Len(cs) >= w THEN cs ELSE ZeroPad(<<"0">> \o cs, w)

PadInt(n, w) == Str(ZeroPad(Digits(n), w))

\* str.strip() of surrounding blanks
RECURSIVE LStrip(_)
LStrip(cs) == IF cs # <<>> /\ Head(cs) = " " THEN LStrip(Tail(cs)) ELSE cs

RECURSIVE RStrip(_)
RStrip(cs) == IF cs # <<>> /\ cs[Len(cs)] = " "
              THEN RStrip(SubSeq(cs, 1, Len(cs) - 1)) ELSE cs

Strip(cs) == RStrip(LStrip(cs))

\* value of a non-empty run of digits
RECURSIVE DigitsVal(_)
DigitsVal(cs) == IF cs = <<>> THEN 0
                 ELSE 10 * DigitsVal(SubSeq(cs, 1, Len(cs) - 1)) + DigitVal(cs[Len(cs)])

AllDigits(cs) == \A i \in 1..Len(cs) : IsDigit(cs[i])

HasSign(cs) == cs # <<>> /\ Head(cs) \in {"+", "-"}

Unsigned(cs) == IF HasSign(cs) THEN Tail(cs) ELSE cs

SignOf(cs) == IF cs # <<>> /\ Head(cs) = "-" THEN -1 ELSE 1

\* int(field): blanks stripped, an optional sign, then digits only.
\* ok = FALSE stands for the ValueError.
ParseInt(cs) ==
    LET s == Strip(cs)
        body == Unsigned(s)
    IN  IF body # <<>> /\ AllDigits(body)
        THEN [ok |-> TRUE, val |-> SignOf(s) * DigitsVal(body)]
        ELSE [ok |-> FALSE, val |-> 0]

(***************************************************************************)
(* Floats.  Wind components are held in hundredths of a metre per second,  *)
(* heights in tenths of a metre.                                           *)
(***************************************************************************)
\* ulp: the units in the last place by which the double lies above the
\* decimal value that val stands for
Fin(x) == [kind |-> "fin", val |-> x, negzero |-> FALSE, ulp |-> 0]
\* -0.0: equal to 0.0 in every comparison, told apart by atan2 only
NegZero == [kind |-> "fin", val |-> 0, negzero |-> TRUE, ulp |-> 0]
NaN == [kind |-> "nan", val |-> 0, negzero |-> FALSE, ulp |-> 0]
Inf == [kind |-> "inf", val |-> 0, negzero |-> FALSE, ulp |-> 0]

IsFin(y) == y.kind = "fin"

\* position of the decimal point in cs, 0 when there is none
PointAt(cs) == IF \E i \in 1..Len(cs) : cs[i] = "."
               THEN CHOOSE i \in 1..Len(cs) : cs[i] = "." /\ \A j \in 1..(i - 1) : cs[j] # "."
               ELSE 0

\* the first two decimals of a run of digits, as hundredths
Hundredths(fr) == DigitsVal(SubSeq(fr \o <<"0", "0">>, 1, 2))

\* float(field): blanks stripped, an optional sign, then nan, inf, or digits
\* with at most one decimal point and at least one digit.  ok = FALSE stands
\* for the ValueError.
ParseFloat(cs) ==
    LET s == Strip(cs)
        body == Unsigned(s)
        pt == PointAt(body)
        ip == IF pt = 0 THEN body ELSE SubSeq(body, 1, pt - 1)
        fr == IF pt = 0 THEN <<>> ELSE SubSeq(body, pt + 1, Len(body))
    IN  IF body = <<"n", "a", "n">> THEN [ok |-> TRUE, val |-> NaN]
        ELSE IF body = <<"i", "n", "f">> THEN [ok |-> TRUE, val |-> Inf]
        ELSE IF AllDigits(ip) /\ AllDigits(fr) /\ Len(ip) + Len(fr) > 0
        THEN [ok |-> TRUE,
              val |-> IF SignOf(s) = -1 /\ 100 * DigitsVal(ip) + Hundredths(fr) = 0
                      THEN NegZero
                      ELSE Fin(SignOf(s) * (100 * DigitsVal(ip) + Hundredths(fr)))]
        ELSE [ok |-> FALSE, val |-> NaN]

(***************************************************************************)
(* config.BWR_LEVELS_MB and the standard atmosphere.  The two formulas of  *)
(* _pressure_to_height_std are tabulated at the configured levels, in      *)
(* tenths of a metre.                                                      *)
(***************************************************************************)
BWR_LEVELS_MB == <<900, 700, 500, 400, 300, 250, 150, 100, 70, 50, 30, 20, 10>>

\* 44330.0 * (1.0 - (p / 1013.25) ** (1.0 / 5.25588))
Troposphere ==
    900 :> 9885 @@ 700 :> 30121 @@ 500 :> 55743 @@ 400 :> 71853 @@
    300 :> 91638 @@ 250 :> 103628 @@ 150 :> 135087 @@ 100 :> 157970 @@
    70 :> 176691 @@ 50 :> 193224 @@ 30 :> 216385 @@ 20 :> 233233 @@
    10 :> 259187

\* 11000.0 - math.log(p / 226.32) / 1.5769e-4
Stratosphere ==
    900 :> 22458 @@ 700 :> 38396 @@ 500 :> 59733 @@ 400 :> 73884 @@
    300 :> 92127 @@ 250 :> 103689 @@ 150 :> 136084 @@ 100 :> 161797 @@
    70 :> 184415 @@ 50 :> 205753 @@ 30 :> 238147 @@ 20 :> 263860 @@
    10 :> 307816

\* line 24 and line 27, the pressure in hundredths of a hectopascal: at a
\* configured level, and at 226.31, 226.32 and 226.33 hPa
TroposphereAt(p) ==
    CASE p = 22631 -> 110001
      [] p = 22632 -> 109998
      [] p = 22633 -> 109995
      [] OTHER -> Troposphere[p \div 100]
StratosphereAt(p) ==
    CASE p = 22631 -> 110003
      [] p = 22632 -> 110000
      [] p = 22633 -> 109997
      [] OTHER -> Stratosphere[p \div 100]

pressure_to_height_inclusive(p) ==
    IF p >= 22632 THEN TroposphereAt(p) ELSE StratosphereAt(p)

\* lines 22-28, the pressure in hundredths of a hectopascal
pressure_to_height(p) ==
    IF p > 22632 THEN TroposphereAt(p) ELSE StratosphereAt(p)

\* the stratosphere formula with the sign of the logarithm term slipped
pressure_to_height_sign_slip(p_hpa) ==
    IF 100 * p_hpa > 22632 THEN Troposphere[p_hpa] ELSE 220000 - Stratosphere[p_hpa]

pressure_to_height_std(p_hpa) == pressure_to_height(100 * p_hpa)

(***************************************************************************)
(* Linear interpolation; the quotient is taken to the nearest hundredth.    *)
(***************************************************************************)
interpolate_value_unguarded(x_target, x1, y1, x2, y2) ==
    IF x2 = x1 THEN NaN
    ELSE IF IsFin(y1) /\ IsFin(y2)
    THEN Fin(y1.val + (2 * (x_target - x1) * (y2.val - y1.val) + (x2 - x1))
                          \div (2 * (x2 - x1)))
    ELSE NaN

\* -0.0 + t is -0.0 only for t = -0.0, which the term of line 48 is when
\* x_target = x1 and y2 < y1.  At x_target = x2 line 48 is y1 + (y2 - y1) in
\* doubles, which for the samples of the model is y2, but for y1 = 0.7,
\* y2 = 0.1 is 0.09999999999999998, two units in the last place below 0.1.
interpolate_value(x_target, x1, y1, x2, y2) ==
    IF x2 = x1 THEN y1
    ELSE IF x_target = x2 /\ x2 - x1 = 5000 /\ y1 = Fin(70) /\ y2 = Fin(10)
    THEN [Fin(10) EXCEPT !.ulp = -2]
    ELSE IF IsFin(y1) /\ IsFin(y2) /\ y1.negzero /\ x_target = x1 /\ y2.val < 0
    THEN NegZero
    ELSE IF IsFin(y1) /\ IsFin(y2)
    THEN Fin(y1.val + (2 * (x_target - x1) * (y2.val - y1.val) + (x2 - x1))
                          \div (2 * (x2 - x1)))
    ELSE IF y1.kind = "nan" \/ y2.kind = "nan" THEN NaN
    ELSE IF y1.kind = "inf" /\ y2.kind = "inf" THEN NaN
    ELSE IF y2.kind = "inf" /\ x_target = x1 THEN NaN
    ELSE Inf

(***************************************************************************)
(* Wind direction and speed, each rounded as int(round(.)) rounds it.      *)
(***************************************************************************)
\* 100000 * sin((j + 0.5) degrees), j = 0..89, at index j + 1
SinHalf == <<
    873, 2618, 4362, 6105, 7846, 9585, 11320, 13053, 14781, 16505,
    18224, 19937, 21644, 23345, 25038, 26724, 28402, 30071, 31730, 33381,
    35021, 36650, 38268, 39875, 41469, 43051, 44620, 46175, 47716, 49242,
    50754, 52250, 53730, 55194, 56641, 58070, 59482, 60876, 62251, 63608,
    64945, 66262, 67559, 68835, 70091, 71325, 72537, 73728, 74896, 76041,
    77162, 78261, 79335, 80386, 81412, 82413, 83389, 84339, 85264, 86163,
    87036, 87882, 88701, 89493, 90259, 90996, 91706, 92388, 93042, 93667,
    94264, 94832, 95372, 95882, 96363, 96815, 97237, 97630, 97992, 98325,
    98629, 98902, 99144, 99357, 99540, 99692, 99813, 99905, 99966, 99996 >>

\* For a bearing in [0, 90) whose sine and cosine are proportional to a >= 0
\* and b > 0: the number of half-degree marks 0.5, 1.5, ..., 89.5 at or below it.
MarksBelow(a, b) ==
    Cardinality({j \in 0..89 : SinHalf[j + 1] * b <= SinHalf[90 - j] * a})

\* round((270 - degrees(atan2(v, u))) % 360): the compass bearing of (-u, -v),
\* taken quadrant by quadrant; atan2(0, 0) = 0 gives 270.  The bearing is
\* that of the ratio, so whole metres per second are taken as such.
Bearing(a, b) ==
    IF a = 0 /\ b = 0 THEN 270
    ELSE IF a >= 0 /\ b > 0 THEN MarksBelow(a, b)
    ELSE IF a > 0 /\ b <= 0 THEN 90 + MarksBelow(-b, a)
    ELSE IF a <= 0 /\ b < 0 THEN 180 + MarksBelow(-a, -b)
    ELSE 270 + MarksBelow(b, -a)

RoundedDirectionTowards(u, v) ==
    IF u % 100 = 0 /\ v % 100 = 0 THEN Bearing(u \div 100, v \div 100)
    ELSE Bearing(u, v)

RoundedDirection(u, v) ==
    IF u % 100 = 0 /\ v % 100 = 0 THEN Bearing(-(u \div 100), -(v \div 100))
    ELSE Bearing(-u, -v)

\* round(3.6 * sqrt(u**2 + v**2)) for u, v in hundredths: 0.036 * sqrt(s)
\* against k - 0.5 is 15625 * (2k - 1)^2 against 81 * s; an exact half goes
\* to the even neighbour.  Covers winds up to 50 m/s in all (185 km/h).
RoundedSpeedFine(u, v) ==
    The({ IF k > 0 /\ 15625 * (2 * k - 1) * (2 * k - 1) = 81 * (u * u + v * v)
             /\ k % 2 = 1
          THEN k - 1 ELSE k :
          k \in {Cardinality({j \in 1..185 :
                    15625 * (2 * j - 1) * (2 * j - 1) <= 81 * (u * u + v * v)})} })

\* the same for whole metres per second U, V: 3.6 * sqrt(S) against k - 0.5
\* is 25 * (2k - 1)^2 against 1296 * S, never equal (odd against even).
\* Covers winds up to 300 m/s in all (1080 km/h).
RoundedSpeedWhole(U, V) ==
    Cardinality({j \in 1..1100 :
                    25 * (2 * j - 1) * (2 * j - 1) <= 1296 * (U * U + V * V)})

RoundedSpeed(u, v) ==
    IF u % 100 = 0 /\ v % 100 = 0 /\ u * u + v * v > 10000 * 2500
    THEN RoundedSpeedWhole(u \div 100, v \div 100)
    ELSE RoundedSpeedFine(u, v)

\* (direction, speed) as line 175-176 render them; ok = FALSE stands for the
\* ValueError / OverflowError of int(round(.)) on a nan or an infinity.
\* atan2(+-0.0, -0.0) is +-pi: a zero wind whose u is -0.0 has direction 90.
get_wind_direction_speed(u, v) ==
    IF IsFin(u) /\ IsFin(v)
    THEN [ok |-> TRUE,
          direction |-> IF u.val = 0 /\ v.val = 0 /\ u.negzero THEN 90
                        ELSE RoundedDirection(u.val, v.val),
          speed |-> RoundedSpeed(u.val, v.val)]
    ELSE [ok |-> FALSE, direction |-> 0, speed |-> 0]

(***************************************************************************)
(* datetime.  A datetime is a record of its seven fields.                  *)
(***************************************************************************)
DateTime(y, mo, d, h, mi, s, us) ==
    [year |-> y, month |-> mo, day |-> d, hour |-> h, minute |-> mi,
     second |-> s, microsecond |-> us]

IsLeap(y) == (y % 4 = 0 /\ y % 100 # 0) \/ y % 400 = 0

DaysInMonth(y, mo) ==
    IF mo = 2 THEN (IF IsLeap(y) THEN 29 ELSE 28)
    ELSE IF mo \in {4, 6, 9, 11} THEN 30 ELSE 31

\* datetime(y, mo, d, h) raises ValueError outside these ranges
ValidDate(y, mo, d, h) ==
    /\ y \in 1..9999
    /\ mo \in 1..12
    /\ d \in 1..DaysInMonth(y, mo)
    /\ h \in 0..23

MonthAbbr == <<"JAN", "FEB", "MAR", "APR", "MAY", "JUN",
               "JUL", "AUG", "SEP", "OCT", "NOV", "DEC">>

\* dt.strftime("%d%H%MZ%b%Y").upper()
format_dtg_hour_first(dt) ==
    PadInt(dt.hour, 2) \o PadInt(dt.day, 2) \o PadInt(dt.minute, 2) \o "Z"
        \o MonthAbbr[dt.month] \o Str(Digits(dt.year))

format_dtg(dt) ==
    PadInt(dt.day, 2) \o PadInt(dt.hour, 2) \o PadInt(dt.minute, 2) \o "Z"
        \o MonthAbbr[dt.month] \o Str(Digits(dt.year))

(***************************************************************************)
(* Header lookup.                                                          *)
(***************************************************************************)
\* header.index(name), counted from 1: the first position holding name;
\* 0 stands for the ValueError
Index(header, name) ==
    IF \E i \in 1..Len(header) : header[i] = name
    THEN CHOOSE i \in 1..Len(header) :
            header[i] = name /\ \A j \in 1..(i - 1) : header[j] # name
    ELSE 0

\* the column names f"u{level}", f"v{level}"
UCol(level) == <<"u">> \o Digits(level)
VCol(level) == <<"v">> \o Digits(level)

COL_NAME == <<"b", "w", "r", "_", "n", "a", "m", "e">>
COL_YYYY == <<"y", "y", "y", "y">>
COL_MM == <<"m", "m">>
COL_DD == <<"d", "d">>
COL_HH == <<"h", "h">>

\* lines 93-95: level_indices, as the pairs (u column, v column) in the order
\* of the levels, starting at the k-th level
RECURSIVE LevelIndices(_, _)
LevelIndices(header, k) ==
    IF k > Len(BWR_LEVELS_MB) THEN <<>>
    ELSE << <<Index(header, UCol(BWR_LEVELS_MB[k])),
              Index(header, VCol(BWR_LEVELS_MB[k]))>> >>
         \o LevelIndices(header, k + 1)

\* lines 87-95: the column numbers, ok = FALSE when a name is absent
HeaderIndices(header) ==
    The({ [ok |-> /\ r.idx_name # 0 /\ r.idx_yyyy # 0 /\ r.idx_mm # 0
                  /\ r.idx_dd # 0 /\ r.idx_hh # 0
                  /\ \A i \in 1..Len(r.level_indices) :
                        r.level_indices[i][1] # 0 /\ r.level_indices[i][2] # 0,
           idx |-> r] :
          r \in {[idx_name |-> Index(header, COL_NAME),
                  idx_yyyy |-> Index(header, COL_YYYY),
                  idx_mm |-> Index(header, COL_MM),
                  idx_dd |-> Index(header, COL_DD),
                  idx_hh |-> Index(header, COL_HH),
                  level_indices |-> LevelIndices(header, 1)]} })

(***************************************************************************)
(* The headers and data rows the model ranges over.  Rows follow the       *)
(* column layout parse_bwr_to_csv writes.                                  *)
(***************************************************************************)
MetaRow == << <<"m", "o", "d", "e", "l">>, <<"c", "y", "c", "l", "e">> >>

LevelColumns ==
    [i \in 1..(2 * Len(BWR_LEVELS_MB)) |->
        IF i % 2 = 1 THEN UCol(BWR_LEVELS_MB[(i + 1) \div 2])
        ELSE VCol(BWR_LEVELS_MB[i \div 2])]

TimeColumns(c_dd, c_hh) ==
    << COL_NAME, COL_YYYY, COL_MM, c_dd, c_hh, <<"l", "a", "t">>, <<"l", "o", "n">> >>

HeaderHourAsH == TimeColumns(COL_DD, <<"h">>) \o LevelColumns

FullHeader == TimeColumns(COL_DD, COL_HH) \o LevelColumns

\* the names dd and hh exchanged: the fifth column is the day
SwappedHeader == TimeColumns(COL_HH, COL_DD) \o LevelColumns
\* no hh column
NoHourHeader == TimeColumns(COL_DD, <<"h">>) \o LevelColumns
\* no v10 column
NoLevelHeader == SubSeq(FullHeader, 1, Len(FullHeader) - 1)

\* u grows with height, v = -(i).5
ProfileA == [i \in 1..(2 * Len(BWR_LEVELS_MB)) |->
                IF i % 2 = 1 THEN Digits((i + 1) \div 2)
                ELSE <<"-">> \o Digits(i \div 2) \o <<".", "5">>]
\* u = 0, v = 10 at every level
ProfileB == [i \in 1..(2 * Len(BWR_LEVELS_MB)) |->
                IF i % 2 = 1 THEN <<"0">> ELSE <<"1", "0">>]

Row(name, dd, hh, profile) ==
    << name, <<"2", "0", "2", "5">>, <<"0", "4">>, dd, hh,
       <<"5", "3", ".", "7", "5">>, <<"1", "3", ".", "7", "5">> >> \o profile

D16 == <<"1", "6">>
H06 == <<"0", "6">>

GoodA == Row(<<"A", "1">>, D16, H06, ProfileA)
GoodB == Row(<<"B", "2">>, D16, H06, ProfileB)
OtherHour == Row(<<"C", "3">>, D16, <<"0", "7">>, ProfileA)
OtherDay == Row(<<"D", "4">>, <<"1", "7">>, H06, ProfileB)
BadHour == Row(<<"E", "5">>, D16, <<"6", "h">>, ProfileA)
BadDate == Row(<<"F", "6">>, <<"3", "1">>, H06, ProfileA)
BadValue == Row(<<"G", "7">>, D16, H06, [ProfileA EXCEPT ![5] = <<"x">>])
NanValue == Row(<<"H", "8">>, D16, H06, [ProfileB EXCEPT ![18] = <<"n", "a", "n">>])
ShortRow == SubSeq(Row(<<"I", "9">>, D16, H06, ProfileA), 1, 20)
BlankRow == <<>>
\* day 6, hour 16 under FullHeader; day 16, hour 6 under SwappedHeader
Day06 == Row(<<"J", "0">>, <<"0", "6">>, <<"1", "6">>, ProfileB)

\* rows taken in every combination
RowTemplates == {GoodA, GoodB, OtherHour, BadHour}

\* rows taken alone, and before and after GoodA
ExtraTemplates == {OtherDay, BadDate, BadValue, NanValue, ShortRow, BlankRow}

\* rows taken under the headers other than FullHeader
FewTemplates == {GoodA, Day06}

(***************************************************************************)
(* parser_bwr.parse_bwr_to_csv: one row per GRIB file and area, the cells  *)
(* as csv.writer writes them (str of an int, of a float, the formatted     *)
(* month, day and hour).                                                   *)
(***************************************************************************)
\* str(x) of a float held in hundredths: 3.25, -2.5, 3.0, -0.0, nan
FloatRepr(y) ==
    IF y.kind = "nan" THEN <<"n", "a", "n">>
    ELSE IF y.kind = "inf" THEN <<"i", "n", "f">>
    ELSE LET m == IF y.val < 0 THEN -y.val ELSE y.val
             fr == IF m % 10 = 0 THEN Digits((m % 100) \div 10)
                   ELSE ZeroPad(Digits(m % 100), 2)
         IN  (IF y.val < 0 \/ y.negzero THEN <<"-">> ELSE <<>>)
                 \o Digits(m \div 100) \o <<".">> \o fr

\* lines 104-106: the cycle of the first file
cycle_dt == DateTime(2025, 4, 14, 12, 0, 0, 0)

\* line 149: the metadata row
ParserMetaRow ==
    << <<"m", "o", "d", "e", "l", "=", "G", "F", "S", "_", "0", "p", "2", "5",
         "_", "1", "h", "r">>,
       <<"c", "y", "c", "l", "e", "=">> \o Digits(cycle_dt.year)
           \o ZeroPad(Digits(cycle_dt.month), 2) \o ZeroPad(Digits(cycle_dt.day), 2)
           \o <<"_">> \o ZeroPad(Digits(cycle_dt.hour), 2) >>

\* _extract_valid_time: the cycle plus the forecast hour of the file name,
\* for hours that stay within the month of the cycle
extract_valid_time(fallback, step_hours) ==
    DateTime(fallback.year, fallback.month,
             fallback.day + (fallback.hour + step_hours) \div 24,
             (fallback.hour + step_hours) % 24, 0, 0, 0)

\* two of config.BWR_AREAS: name, center_lat, center_lon
Area1 == [name |-> <<"N", "F", "E", "B", "3", "1">>,
          lat |-> <<"5", "3", ".", "7", "5">>, lon |-> <<"1", "3", ".", "7", "5">>]
Area2 == [name |-> <<"N", "F", "E", "B", "2", "4">>,
          lat |-> <<"5", "3", ".", "7", "5">>, lon |-> <<"1", "6", ".", "2", "5">>]

\* _extract_point_wind at the i-th level: a wind that turns with height, or
\* no wind with a u that round(u_val, 5) takes to -0.0
GribFields == {"shear", "calm"}
extract_point_wind(field, i) ==
    IF field = "shear" THEN <<Fin(100 * i + 25), Fin(-(50 * i))>>
    ELSE <<NegZero, Fin(0)>>

\* lines 130-144
ParserRow(area, valid_dt, field) ==
    << area.name, Digits(valid_dt.year), ZeroPad(Digits(valid_dt.month), 2),
       ZeroPad(Digits(valid_dt.day), 2), ZeroPad(Digits(valid_dt.hour), 2),
       area.lat, area.lon >>
    \o [i \in 1..(2 * Len(BWR_LEVELS_MB)) |->
           FloatRepr(extract_point_wind(field, (i + 1) \div 2)[2 - (i % 2)])]

\* the forecast hours of the GRIB files: valid 2025-04-16 06:00 and
\* 2025-04-17 06:00
ForecastHours == {42, 66}

\* lines 120-151: the file written, for a list of files that is not empty
parse_bwr_to_csv(grib_files, areas, field) ==
    [exists |-> TRUE,
     rows |-> <<ParserMetaRow, FullHeader>>
              \o [k \in 1..(Len(grib_files) * Len(areas)) |->
                     ParserRow(areas[((k - 1) % Len(areas)) + 1],
                               extract_valid_time(cycle_dt,
                                   grib_files[((k - 1) \div Len(areas)) + 1]),
                               field)]]

ParserRows ==
    {ParserRow(a, extract_valid_time(cycle_dt, h), f) :
        a \in {Area1, Area2}, h \in ForecastHours, f \in GribFields}

AllRows == RowTemplates \cup ExtraTemplates \cup FewTemplates \cup ParserRows

AllHeaders == {FullHeader, SwappedHeader, NoHourHeader, NoLevelHeader}

(***************************************************************************)
(* _create_single_report.                                                  *)
(***************************************************************************)
\* row[i], counted from 1, exists; FALSE stands for the IndexError
HasField(row, i) == i \in 1..Len(row)

FloatField(row, i) == IF HasField(row, i) THEN ParseFloat(row[i])
                      ELSE [ok |-> FALSE, val |-> NaN]

\* lines 131-137: one (h, u, v) per configured level, in the order of the
\* levels, from the k-th level on; level_indices[k] is the pair of columns
\* of the k-th level
RECURSIVE DataPointsSkipBad(_, _, _)
DataPointsSkipBad(row, level_indices, k) ==
    IF k > Len(BWR_LEVELS_MB) THEN <<>>
    ELSE The({ IF u.ok /\ v.ok
               THEN << [ok |-> TRUE,
                        h |-> pressure_to_height_std(BWR_LEVELS_MB[k]),
                        u |-> u.val, v |-> v.val] >>
               ELSE <<>> :
               u \in {FloatField(row, level_indices[k][1])},
               v \in {FloatField(row, level_indices[k][2])} })
         \o DataPointsSkipBad(row, level_indices, k + 1)

RECURSIVE DataPoints(_, _, _)
DataPoints(row, level_indices, k) ==
    IF k > Len(BWR_LEVELS_MB) THEN <<>>
    ELSE The({ << [ok |-> u.ok /\ v.ok,
                   h |-> pressure_to_height_std(BWR_LEVELS_MB[k]),
                   u |-> u.val, v |-> v.val] >> :
               u \in {FloatField(row, level_indices[k][1])},
               v \in {FloatField(row, level_indices[k][2])} })
         \o DataPoints(row, level_indices, k + 1)

\* line 139: data_points.sort(key=lambda x: x[0]), a stable sort: the point
\* at position i goes behind the points that are lower, and behind the
\* points of the same height that stood before it
Rank(ps, i) ==
    1 + Cardinality({j \in 1..Len(ps) :
                        ps[j].h < ps[i].h \/ (ps[j].h = ps[i].h /\ j < i)})

RECURSIVE SortedFrom(_, _)
SortedFrom(ps, k) ==
    IF k > Len(ps) THEN <<>>
    ELSE <<ps[CHOOSE i \in 1..Len(ps) : Rank(ps, i) = k]>> \o SortedFrom(ps, k + 1)

SortByHeight(ps) == SortedFrom(ps, 1)

\* range(2, 32, 2)
LayerTops == [i \in 1..15 |-> 2 * i]

\* target_h = (layer_top_km - 1) * 1000.0, in tenths of a metre
TargetHeight(layer_top_km) == (layer_top_km - 1) * 10000

\* lines 148-167: the pair (p1, p2) the layer is interpolated between
BracketExtrapolates(data_points, target_h) ==
    LET n == Len(data_points)
        hit == {i \in 1..(n - 1) : /\ data_points[i].h <= target_h
                                   /\ target_h <= data_points[i + 1].h}
    IN  IF target_h < data_points[1].h THEN <<data_points[1], data_points[IF n > 1 THEN 2 ELSE 1]>>
        ELSE IF target_h > data_points[n].h
        THEN <<data_points[IF n > 1 THEN n - 1 ELSE 1], data_points[n]>>
        ELSE IF hit # {}
             THEN LET i == CHOOSE i \in hit : \A j \in hit : i <= j
                  IN  <<data_points[i], data_points[i + 1]>>
             ELSE <<data_points[1], data_points[1]>>

\* p1 is None: the subscript p1[0] of line 169 raises
NonePoint == [ok |-> FALSE, h |-> 0, u |-> NaN, v |-> NaN]

BracketWithoutFallback(data_points, target_h) ==
    LET n == Len(data_points)
        hit == {i \in 1..(n - 1) : /\ data_points[i].h <= target_h
                                   /\ target_h <= data_points[i + 1].h}
    IN  IF target_h < data_points[1].h THEN <<data_points[1], data_points[1]>>
        ELSE IF target_h > data_points[n].h THEN <<data_points[n], data_points[n]>>
        ELSE IF hit # {}
             THEN LET i == CHOOSE i \in hit : \A j \in hit : i <= j
                  IN  <<data_points[i], data_points[i + 1]>>
             ELSE <<NonePoint, NonePoint>>

BracketLastPair(data_points, target_h) ==
    LET n == Len(data_points)
        hit == {i \in 1..(n - 1) : /\ data_points[i].h <= target_h
                                   /\ target_h <= data_points[i + 1].h}
    IN  IF target_h < data_points[1].h THEN <<data_points[1], data_points[1]>>
        ELSE IF target_h > data_points[n].h THEN <<data_points[n], data_points[n]>>
        ELSE IF hit # {}
             THEN LET i == CHOOSE i \in hit : \A j \in hit : i >= j
                  IN  <<data_points[i], data_points[i + 1]>>
             ELSE <<data_points[1], data_points[1]>>

Bracket(data_points, target_h) ==
    LET n == Len(data_points)
        hit == {i \in 1..(n - 1) : /\ data_points[i].h <= target_h
                                   /\ target_h <= data_points[i + 1].h}
    IN  IF target_h < data_points[1].h THEN <<data_points[1], data_points[1]>>
        ELSE IF target_h > data_points[n].h THEN <<data_points[n], data_points[n]>>
        ELSE IF hit # {}
             THEN LET i == CHOOSE i \in hit : \A j \in hit : i <= j
                  IN  <<data_points[i], data_points[i + 1]>>
             ELSE <<data_points[1], data_points[1]>>

\* lines 148-170: the (u, v) interpolated at target_h
WindAt(data_points, target_h) ==
    The({ [u |-> interpolate_value(target_h, p[1].h, p[1].u, p[2].h, p[2].u),
           v |-> interpolate_value(target_h, p[1].h, p[1].v, p[2].h, p[2].v)] :
          p \in {Bracket(data_points, target_h)} })

\* lines 144-170: the layer's interpolated (u, v)
LayerWind(data_points, layer_top_km) ==
    WindAt(data_points, TargetHeight(layer_top_km))

\* lines 169-176 for one layer: the interpolated wind, the rounded direction
\* and speed, and hh_str, ddd_str and fff_str as characters
LayerEntry(data_points, layer_top_km) ==
    The({ The({ [ok |-> ds.ok, top |-> layer_top_km, u |-> w.u, v |-> w.v,
                 direction |-> ds.direction, speed |-> ds.speed,
                 hh |-> ZeroPad(Digits(layer_top_km), 2),
                 ddd |-> ZeroPad(Digits(ds.direction), 3),
                 fff |-> ZeroPad(Digits(ds.speed), 3)] :
                ds \in {get_wind_direction_speed(w.u, w.v)} }) :
          w \in {LayerWind(data_points, layer_top_km)} })

\* line 178: f"{hh_str}/{ddd_str}/{fff_str}"
EntryStr(e) ==
    [ok |-> e.ok, str |-> Str(e.hh) \o "/" \o Str(e.ddd) \o "/" \o Str(e.fff)]

LayerStr(data_points, layer_top_km) ==
    The({ EntryStr(e) : e \in {LayerEntry(data_points, layer_top_km)} })

\* lines 143-178: layer_strs, from the k-th layer on
RECURSIVE LayerStrs(_, _)
LayerStrs(data_points, k) ==
    IF k > Len(LayerTops) THEN <<>>
    ELSE <<LayerStr(data_points, LayerTops[k])>> \o LayerStrs(data_points, k + 1)

\* "/".join(layer_strs), from the k-th on
RECURSIVE JoinStrs(_, _)
JoinStrs(layers, k) ==
    IF k > Len(layers) THEN ""
    ELSE IF k = Len(layers) THEN layers[k].str
    ELSE layers[k].str \o "/" \o JoinStrs(layers, k + 1)

\* lines 182-192, the lines of the report in the order they are appended
ReportLinesAreaFirst(exer, dtg_str, area_name, zulum_str, layer_line) ==
    << Str(exer),
       "MSGID/CBRN BWR/IMGW-PIB/-/-/-/-/-/-/-/-//",
       "GEODATUM/WGE//",
       "AREAM/" \o Str(area_name) \o "//",
       dtg_str,
       zulum_str,
       "UNITM/-/DGG/KPH/-//",
       layer_line >>

ReportLines(exer, dtg_str, area_name, zulum_str, layer_line) ==
    << Str(exer),
       "MSGID/CBRN BWR/IMGW-PIB/-/-/-/-/-/-/-/-//",
       "GEODATUM/WGE//",
       dtg_str,
       "AREAM/" \o Str(area_name) \o "//",
       zulum_str,
       "UNITM/-/DGG/KPH/-//",
       layer_line >>

\* line 180
LayerLineOf(layers) ==
    [ok |-> \A i \in 1..Len(layers) : layers[i].ok,
     str |-> "LAYERM/" \o JoinStrs(layers, 1) \o "//"]

\* lines 131-180: the LAYERM line.  ok = FALSE stands for the exception
\* raised on a missing or non-numeric value (lines 134-135) or on a wind that
\* is not finite (lines 175-176).
LayerLine(row, level_indices) ==
    The({ IF \E i \in 1..Len(raw) : ~raw[i].ok THEN [ok |-> FALSE, str |-> ""]
          ELSE The({ LayerLineOf(layers) :
                     layers \in {LayerStrs(SortByHeight(raw), 1)} }) :
          raw \in {DataPoints(row, level_indices, 1)} })

\* LayerLine, evaluated once for each row and column map of the model
LayerLineTable ==
    [row \in AllRows, li \in {HeaderIndices(h).idx.level_indices : h \in AllHeaders}
        |-> LayerLine(row, li)]

create_single_report(row, level_indices, area_name, exer, dtg_str, zulum_str) ==
    The({ IF ~layer_line.ok THEN [ok |-> FALSE, lines |-> <<>>]
          ELSE [ok |-> TRUE,
                lines |-> ReportLines(exer, dtg_str, area_name, zulum_str,
                                      layer_line.str)] :
          layer_line \in {LayerLineTable[row, level_indices]} })

(***************************************************************************)
(* generate_reports.                                                       *)
(***************************************************************************)
\* HeaderIndices, evaluated once for each header of the model
HeaderIndicesTable == [h \in AllHeaders |-> HeaderIndices(h)]

IntField(row, i) == IF HasField(row, i) THEN ParseInt(row[i])
                    ELSE [ok |-> FALSE, val |-> 0]

\* end_forecast_dt.replace(minute=0, second=0, microsecond=0), line 101
TargetTimeKeepsMinutes(dt) == dt

TargetTime(dt) == [dt EXCEPT !.minute = 0, !.second = 0, !.microsecond = 0]

\* row_dt == target_time, line 113
RowMatchesByHour(row_dt, target_time) == row_dt.hour = target_time.hour

RowMatches(row_dt, target_time) == row_dt = target_time

\* lines 105-121 for one row: kind is "report" (the row matched and its
\* report was built), "skip" (no match) or "error" (the except clause)
ProcessRow(row, idx, target_time, exer, dtg_str, zulum_str) ==
    LET y == IntField(row, idx.idx_yyyy)
        mo == IntField(row, idx.idx_mm)
        d == IntField(row, idx.idx_dd)
        h == IntField(row, idx.idx_hh)
    IN  IF ~(y.ok /\ mo.ok /\ d.ok /\ h.ok)
        THEN [kind |-> "error", report |-> <<>>]
        ELSE IF ~ValidDate(y.val, mo.val, d.val, h.val)
        THEN [kind |-> "error", report |-> <<>>]
        ELSE IF ~RowMatches(DateTime(y.val, mo.val, d.val, h.val, 0, 0, 0), target_time)
        THEN [kind |-> "skip", report |-> <<>>]
        ELSE IF ~HasField(row, idx.idx_name)
        THEN [kind |-> "error", report |-> <<>>]
        ELSE The({ IF rep.ok THEN [kind |-> "report", report |-> rep.lines]
                   ELSE [kind |-> "error", report |-> <<>>] :
                   rep \in {create_single_report(row, idx.level_indices,
                               row[idx.idx_name], exer, dtg_str, zulum_str)} })

Message(msg, n) == [msg |-> msg, count |-> n]

\* reports = [], count = 0 (lines 74, 103), with nothing printed yet
NoReports == [reports |-> <<>>, count |-> 0, printed |-> <<>>]

\* lines 117-120: what the row leaves of reports, count and the printed lines
AfterRowPrepends(acc, r) ==
    IF r.kind = "report"
    THEN [acc EXCEPT !.reports = <<r.report>> \o @, !.count = @ + 1]
    ELSE IF r.kind = "error"
    THEN [acc EXCEPT !.printed = Append(@, Message("Error processing row", 0))]
    ELSE acc

\* the layer line of the report before it is kept for the next one
AfterRowKeepsLayers(acc, r) ==
    IF r.kind = "report"
    THEN [acc EXCEPT !.reports =
                        Append(@, IF @ = <<>> THEN r.report
                                  ELSE [r.report EXCEPT ![8] = acc.reports[1][8]]),
                     !.count = @ + 1]
    ELSE IF r.kind = "error"
    THEN [acc EXCEPT !.printed = Append(@, Message("Error processing row", 0))]
    ELSE acc

AfterRow(acc, r) ==
    IF r.kind = "report"
    THEN [acc EXCEPT !.reports = Append(@, r.report), !.count = @ + 1]
    ELSE IF r.kind = "error"
    THEN [acc EXCEPT !.printed = Append(@, Message("Error processing row", 0))]
    ELSE acc

\* lines 104-121: the loop over the data rows, from the k-th on
RECURSIVE ScanRowsStopsAtError(_, _, _, _, _, _, _, _)
ScanRowsStopsAtError(rows, k, acc, idx, target_time, exer, dtg_str, zulum_str) ==
    IF k > Len(rows) THEN acc
    ELSE The({ IF r.kind = "error" THEN AfterRow(acc, r)
               ELSE The({ ScanRowsStopsAtError(rows, k + 1, nxt, idx, target_time,
                                               exer, dtg_str, zulum_str) :
                          nxt \in {AfterRow(acc, r)} }) :
               r \in {ProcessRow(rows[k], idx, target_time, exer, dtg_str, zulum_str)} })

RECURSIVE ScanRows(_, _, _, _, _, _, _, _)
ScanRows(rows, k, acc, idx, target_time, exer, dtg_str, zulum_str) ==
    IF k > Len(rows) THEN acc
    ELSE The({ ScanRows(rows, k + 1, nxt, idx, target_time, exer, dtg_str, zulum_str) :
               nxt \in { The({ AfterRow(acc, r) :
                               r \in {ProcessRow(rows[k], idx, target_time, exer,
                                                 dtg_str, zulum_str)} }) } })

\* "\n".join(reports), as lines
RECURSIVE JoinLines(_)
JoinLines(reports) ==
    IF reports = <<>> THEN <<>> ELSE Head(reports) \o JoinLines(Tail(reports))

EndsWith(cs, suffix) ==
    /\ Len(cs) >= Len(suffix)
    /\ SubSeq(cs, Len(cs) - Len(suffix) + 1, Len(cs)) = suffix

\* "//" appended whatever the tag ends with
NormalizeExerAlways(exer) == exer \o <<"/", "/">>

\* lines 71-72
NormalizeExer(exer) == IF EndsWith(exer, <<"/", "/">>) THEN exer
                       ELSE exer \o <<"/", "/">>

\* line 67
DtgStr(a) == "DTG/" \o format_dtg(a.dtg_created_dt) \o "//"

\* line 69
ZulumStr(a) == "ZULUM/" \o format_dtg(a.start_model_dt) \o "/"
                  \o format_dtg(a.start_forecast_dt) \o "/"
                  \o format_dtg(a.end_forecast_dt) \o "//"

File(lines) == [exists |-> TRUE, lines |-> lines]
NoFile == [exists |-> FALSE, lines |-> <<>>]

\* A call ends with status "raised" (open() of a missing dataset raises, line
\* 77), "empty_or_invalid" (return at line 83), "header_error" (return at line
\* 98) or "generated" (line 127); out is the output file as the call found it.
Result(status, output_file, stdout) ==
    [status |-> status, output_file |-> output_file, stdout |-> stdout]

\* lines 81-83
ReturnAtLine83(out) ==
    Result("empty_or_invalid", out, <<Message("Warning: empty or invalid", 0)>>)

\* lines 96-98
ReturnAtLine98Truncates(out) ==
    Result("header_error", File(<<>>), <<Message("Error parsing CSV header", 0)>>)

ReturnAtLine98(out) ==
    Result("header_error", out, <<Message("Error parsing CSV header", 0)>>)

\* lines 124-125: open(self.output_file, "w") and the write
WriteReports(out, reports) == File(JoinLines(reports))

\* lines 123-127
Finish(out, scan) ==
    Result("generated", WriteReports(out, scan.reports),
           Append(scan.printed, Message("Generated BWR reports", scan.count)))

\* The whole call, on the dataset file csv and the output file out, with the
\* arguments a.
generate_reports(csv, out, a) ==
    IF ~csv.exists THEN Result("raised", out, <<>>)
    ELSE IF Len(csv.rows) < 3 THEN ReturnAtLine83(out)
    ELSE The({ IF ~hx.ok THEN ReturnAtLine98(out)
               ELSE The({ Finish(out, scan) :
                          scan \in {ScanRows(rows, 1, NoReports, hx.idx,
                                             TargetTime(a.end_forecast_dt),
                                             NormalizeExer(a.exer),
                                             DtgStr(a), ZulumStr(a))} }) :
               hx \in {HeaderIndicesTable[csv.rows[2]]},
               rows \in {SubSeq(csv.rows, 3, Len(csv.rows))} })

(***************************************************************************)
(* The dataset files and the arguments the model ranges over.              *)
(***************************************************************************)
RowSeqs(S) == UNION {[1..n -> S] : n \in 1..MaxRows}

CsvFile(rows) == [exists |-> TRUE, rows |-> rows]

Datasets ==
    {[exists |-> FALSE, rows |-> <<>>],
     CsvFile(<<>>), CsvFile(<<MetaRow>>), CsvFile(<<MetaRow, FullHeader>>),
     CsvFile(<<MetaRow, NoHourHeader>>)}
    \cup {CsvFile(<<MetaRow, FullHeader>> \o rs) : rs \in RowSeqs(RowTemplates)}
    \cup {CsvFile(<<MetaRow, FullHeader>> \o rs) :
            rs \in UNION {{<<x>>, <<x, GoodA>>, <<GoodA, x>>} : x \in ExtraTemplates}}
    \cup {CsvFile(<<MetaRow, h>> \o rs) :
            h \in {SwappedHeader, NoHourHeader, NoLevelHeader},
            rs \in RowSeqs(FewTemplates)}

Args(exer, end_forecast_dt) ==
    [exer |-> exer,
     dtg_created_dt |-> DateTime(2025, 4, 14, 19, 33, 0, 0),
     start_model_dt |-> DateTime(2025, 4, 14, 12, 0, 0, 0),
     start_forecast_dt |-> DateTime(2025, 4, 16, 0, 0, 0, 0),
     end_forecast_dt |-> end_forecast_dt]

\* an exercise tag without the closing "//" at five forecast ends, and one
\* with it
Arguments ==
    {Args(<<"X", "/", "-">>, t) :
        t \in {DateTime(2025, 4, 16, 6, 0, 0, 0),
               DateTime(2025, 4, 16, 6, 30, 15, 250),
               DateTime(2025, 4, 16, 6, 59, 59, 0),
               DateTime(2025, 4, 16, 7, 0, 0, 0),
               DateTime(2025, 4, 17, 6, 0, 0, 0)}}
    \cup {Args(<<"X", "/", "/">>, DateTime(2025, 4, 16, 6, 30, 15, 250))}

\* what the output file may hold that this program did not write
OtherContents == {NoFile, File(<<"STALE">>)}

(***************************************************************************)
(* The state: the two files, and the calls of generate_reports made on one *)
(* BwrGenerator with the same arguments.                                   *)
(***************************************************************************)
VARIABLES
    input_csv,      \* the dataset file bwr_output.csv
    output_file,    \* the artifact bwr.txt
    args,           \* the arguments generate_reports is called with
    calls,          \* the number of calls made
    status,         \* "ready" before the first call, then how the last call ended
    stdout,         \* what the last call printed
    before,         \* the artifact as the last call found it
    left,           \* the artifact as the last call left it
    prev,           \* before and left of the call before the last one
    pc,             \* where _create_single_report stands: "idle" outside it
    points,         \* its list data_points
    entries,        \* the layers its loop has built so far
    layerm,         \* its layer_line, "" until line 180
    atm,            \* two pressures and the heights _pressure_to_height_std gives them
    gui,            \* the window of gui.App: its button, its check boxes, its threads
    dl              \* a call of data_downloader.download_grib_files

run_vars == <<input_csv, output_file, args, calls, status, stdout, before, left, prev>>
report_vars == <<pc, points, entries, layerm>>
side_vars == <<atm, gui, dl>>
vars == <<run_vars, report_vars, side_vars>>

NoReport == pc = "idle" /\ points = <<>> /\ entries = <<>> /\ layerm = ""

\* no conversion asked, no window, no download
NoSide ==
    /\ atm = [p |-> <<>>, h |-> <<>>]
    /\ gui = [button |-> "none"]
    /\ dl = [pc |-> "idle"]

\* generate_reports is not called
NoRun ==
    /\ input_csv = [exists |-> FALSE, rows |-> <<>>]
    /\ output_file = [exists |-> FALSE, lines |-> <<>>]
    /\ args = [exer |-> <<>>]
    /\ calls = 0
    /\ status = "ready"
    /\ stdout = <<>>
    /\ before = output_file
    /\ left = output_file
    /\ prev = [before |-> output_file, left |-> output_file]

Init ==
    /\ input_csv \in Datasets
    /\ output_file \in OtherContents
    /\ args \in Arguments
    /\ calls = 0
    /\ status = "ready"
    /\ stdout = <<>>
    /\ before = output_file
    /\ left = output_file
    /\ prev = [before |-> output_file, left |-> output_file]
    /\ NoReport
    /\ NoSide

\* generate_reports(exer, dtg_created_dt, start_model_dt, start_forecast_dt,
\* end_forecast_dt), from its first line to its return
Call ==
    /\ calls < MaxCalls
    /\ LET res == generate_reports(input_csv, output_file, args)
       IN  /\ status' = res.status
           /\ output_file' = res.output_file
           /\ stdout' = res.stdout
           /\ left' = res.output_file
    /\ calls' = calls + 1
    /\ before' = output_file
    /\ prev' = [before |-> before, left |-> left]
    /\ UNCHANGED <<input_csv, args>>
    /\ UNCHANGED report_vars
    /\ UNCHANGED side_vars

\* between two calls another writer replaces or removes the artifact
OtherWriter ==
    /\ calls \in 1..(MaxCalls - 1)
    /\ output_file = left
    /\ \E f \in OtherContents : f # output_file /\ output_file' = f
    /\ UNCHANGED <<input_csv, args, calls, status, stdout, before, left, prev>>
    /\ UNCHANGED report_vars
    /\ UNCHANGED side_vars

Next == Call \/ OtherWriter

Spec == Init /\ [][Next]_vars

(***************************************************************************)
(* _create_single_report from line 139 on, step by step, on a list of      *)
(* data points: the sort, the fifteen turns of the layer loop, the join.   *)
(* Heights are in tenths of a metre and winds in hundredths of a metre per  *)
(* second, as everywhere.                                                  *)
(***************************************************************************)
Point(h, w) == [ok |-> TRUE, h |-> h, u |-> Fin(w[1]), v |-> Fin(w[2])]

\* heights below the lowest target, on the targets of 1 km and 15 km, and
\* above the highest target (29 km)
SampleHeights == {5000, 10000, 150000, 320000}

\* winds of the samples of a profile of several points
SampleWinds == { <<0, 1000>>, <<-300, 400>> }

\* winds of a profile of one point: the four cardinal winds, calm, winds
\* just off north, and winds of 10 to 300 m/s
SingleWinds ==
    { <<0, 0>>, <<0, 1000>>, <<1000, 0>>, <<0, -1000>>, <<-1000, 0>>,
      <<5, -1000>>, <<-5, -1000>>, <<125, -325>>, <<-550, 325>>,
      <<30000, 0>>, <<0, 27700>>, <<0, -27800>> }

\* a sample read from the field "nan"
NanPoint == [ok |-> TRUE, h |-> 150000, u |-> NaN, v |-> Fin(0)]
\* no wind, u read from a cell "-0.0"
CalmPoint == [ok |-> TRUE, h |-> 150000, u |-> NegZero, v |-> Fin(0)]

Profiles ==
    {<<Point(h, w)>> : h \in SampleHeights, w \in SingleWinds}
    \cup {<<NanPoint>>, <<Point(5000, <<0, 1000>>), NanPoint>>}
    \cup {<<Point(5000, <<70, 0>>), Point(10000, <<10, 0>>)>>}
        \cup {<<CalmPoint>>, <<CalmPoint, Point(320000, <<-300, 400>>)>>}
    \cup UNION {[1..n -> {Point(h, w) : h \in SampleHeights, w \in SampleWinds}] :
                    n \in 2..MaxPoints}

\* a profile handed to line 139, or a row handed to line 131 under the
\* parser's header
ReportInit ==
    /\ \/ /\ input_csv = [exists |-> FALSE, rows |-> <<>>]
          /\ pc = "sort"
          /\ points \in Profiles
       \/ /\ input_csv \in {CsvFile(<<MetaRow, FullHeader, row>>) : row \in AllRows}
          /\ pc = "build"
          /\ points = <<>>
    /\ output_file = NoFile
    /\ args = Args(<<"X", "/", "/">>, DateTime(2025, 4, 16, 6, 0, 0, 0))
    /\ calls = 0
    /\ status = "ready"
    /\ stdout = <<>>
    /\ before = NoFile
    /\ left = NoFile
    /\ prev = [before |-> NoFile, left |-> NoFile]
    /\ entries = <<>>
    /\ layerm = ""
    /\ NoSide

\* lines 132-137, one turn of the loop; float() raises on a cell that is not
\* a number, the subscript on a cell that is missing
AppendPoint ==
    /\ pc = "build"
    /\ LET k == Len(points) + 1
           li == HeaderIndicesTable[input_csv.rows[2]].idx.level_indices
           u == FloatField(input_csv.rows[3], li[k][1])
           v == FloatField(input_csv.rows[3], li[k][2])
       IN  IF u.ok /\ v.ok
           THEN /\ points' = Append(points,
                                [ok |-> TRUE,
                                 h |-> pressure_to_height_std(BWR_LEVELS_MB[k]),
                                 u |-> u.val, v |-> v.val])
                /\ pc' = IF k = Len(BWR_LEVELS_MB) THEN "sort" ELSE "build"
           ELSE /\ points' = points
                /\ pc' = "raised"
    /\ UNCHANGED <<entries, layerm, run_vars>>
    /\ UNCHANGED side_vars

\* line 139
SortPoints ==
    /\ pc = "sort"
    /\ points' = SortByHeight(points)
    /\ pc' = "layers"
    /\ UNCHANGED <<entries, layerm, run_vars>>
    /\ UNCHANGED side_vars

\* lines 143-178, one turn of the loop; int(round(.)) raises on a wind that
\* is not finite
Layer ==
    /\ pc = "layers"
    /\ Len(entries) < Len(LayerTops)
    /\ \E e \in {LayerEntry(points, LayerTops[Len(entries) + 1])} :
          /\ entries' = Append(entries, e)
          /\ pc' = IF e.ok THEN "layers" ELSE "raised"
    /\ UNCHANGED <<points, layerm, run_vars>>
    /\ UNCHANGED side_vars

\* line 180
JoinLayers ==
    /\ pc = "layers"
    /\ Len(entries) = Len(LayerTops)
    /\ layerm' = LayerLineOf([i \in DOMAIN entries |-> EntryStr(entries[i])]).str
    /\ pc' = "done"
    /\ UNCHANGED <<points, entries, run_vars>>
    /\ UNCHANGED side_vars

ReportNext == AppendPoint \/ SortPoints \/ Layer \/ JoinLayers

ReportSpec == ReportInit /\ [][ReportNext]_vars

(***************************************************************************)
(* _pressure_to_height_std on two pressures: the configured levels and the *)
(* pressures around the boundary of 226.32 hPa, in hundredths.             *)
(***************************************************************************)
AtmosphereInit ==
    /\ NoRun /\ NoReport
    /\ atm \in {[p |-> <<p1, p2>>, h |-> <<>>] :
                  p1, p2 \in {100 * BWR_LEVELS_MB[i] : i \in DOMAIN BWR_LEVELS_MB}
                                \cup {22631, 22632, 22633}}
    /\ gui = [button |-> "none"]
    /\ dl = [pc |-> "idle"]

Convert ==
    /\ atm.p # <<>> /\ atm.h = <<>>
    /\ atm' = [atm EXCEPT !.h = <<pressure_to_height(atm.p[1]),
                                  pressure_to_height(atm.p[2])>>]
    /\ UNCHANGED <<run_vars, report_vars, gui, dl>>

AtmosphereNext == Convert

AtmosphereSpec == AtmosphereInit /\ [][AtmosphereNext]_vars

(***************************************************************************)
(* The parser and the generator on one dataset file: parse_bwr_to_csv      *)
(* writes it, generate_reports reads it.                                   *)
(***************************************************************************)
ParserInit ==
    /\ input_csv = [exists |-> FALSE, rows |-> <<>>]
    /\ output_file \in OtherContents
    /\ args \in Arguments
    /\ calls = 0
    /\ status = "ready"
    /\ stdout = <<>>
    /\ before = output_file
    /\ left = output_file
    /\ prev = [before |-> output_file, left |-> output_file]
    /\ NoReport
    /\ NoSide

ParseBwr ==
    /\ \E grib_files \in {<<h>> : h \in ForecastHours} \cup {<<42, 66>>},
          areas \in {<<>>, <<Area1>>, <<Area1, Area2>>},
          field \in GribFields :
          input_csv' = parse_bwr_to_csv(grib_files, areas, field)
    /\ UNCHANGED <<output_file, args, calls, status, stdout, before, left, prev>>
    /\ UNCHANGED report_vars
    /\ UNCHANGED side_vars

ParserNext == ParseBwr \/ Call

ParserSpec == ParserInit /\ [][ParserNext]_vars

(***************************************************************************)
(* The window of gui.App and the downloader: the check boxes, the button   *)
(* 'Wykonaj', the threads that execute_task starts, and                    *)
(* data_downloader.download_grib_files, file by file.  What a request      *)
(* brings back is chosen freely.                                           *)
(***************************************************************************)
\* config.py lines 34-38 and 40-44: list(range(6, 14, 2)), list(range(12, 24, 6))
FCT_HOURS_CDR == <<6, 8, 10, 12>>
FCT_HOURS_BWR == <<12, 18>>

\* config.py lines 100-106: the blocks and the level of each
CDR_BLOCKS ==
    << [block_name |-> "sfc", level |-> "lev_surface"],
       [block_name |-> "2m", level |-> "lev_2_m_above_ground"],
       [block_name |-> "10m", level |-> "lev_10_m_above_ground"],
       [block_name |-> "80m", level |-> "lev_80_m_above_ground"],
       [block_name |-> "entire_atmosphere", level |-> "lev_entire_atmosphere"] >>

\* data_downloader.py lines 24-92: grouped_urls as the list of its blocks in
\* the order they are inserted, files_map as the list of its files; of a url,
\* the forecast file it asks for and the levels it switches on
generate_gfs_urls(is_cdr, is_bwr) ==
    LET fct_str(fct_hour) == "f" \o PadInt(fct_hour, 3)
        nl == Len(BWR_LEVELS_MB)
        level_mb_url(n) == "lev_" \o Str(Digits(BWR_LEVELS_MB[((n - 1) % nl) + 1])) \o "_mb"
        bwr_urls ==
            [n \in 1..(Len(FCT_HOURS_BWR) * nl) |->
                [filename |-> "BWR_" \o level_mb_url(n) \o "_"
                                \o fct_str(FCT_HOURS_BWR[((n - 1) \div nl) + 1]) \o ".grib",
                 fct_str |-> fct_str(FCT_HOURS_BWR[((n - 1) \div nl) + 1]),
                 levels |-> <<level_mb_url(n)>>]]
        cdr_block_urls(b) ==
            [n \in 1..Len(FCT_HOURS_CDR) |->
                [filename |-> "CDR_" \o CDR_BLOCKS[b].block_name \o "_"
                                \o fct_str(FCT_HOURS_CDR[n]) \o ".grib",
                 fct_str |-> fct_str(FCT_HOURS_CDR[n]),
                 levels |-> <<CDR_BLOCKS[b].level>>]]
    IN  (IF is_bwr THEN << [block_name |-> "bwr_all", files_map |-> bwr_urls] >> ELSE <<>>)
        \o (IF is_cdr
            THEN [b \in 1..Len(CDR_BLOCKS) |->
                     [block_name |-> "cdr_" \o CDR_BLOCKS[b].block_name,
                      files_map |-> cdr_block_urls(b)]]
            ELSE <<>>)

\* sum(len(urls) for urls in grouped_urls.values())
TotalFiles(grouped_urls) ==
    Cardinality(UNION {{<<b, n>> : n \in DOMAIN grouped_urls[b].files_map} :
                       b \in DOMAIN grouped_urls})

\* parser_bwr.py line 19 and 30: FILENAME_PATTERN.match(name); "$" also
\* matches before a newline that ends the name
FILENAME_PATTERN(name) ==
    \E a, b, c \in {DigitChars[i] : i \in 1..10} :
        \/ name = "BWR_all_f" \o a \o b \o c \o ".grib"
        \/ name = "BWR_all_f" \o a \o b \o c \o ".grib\n"

\* download_grib_files is called with these blocks
Called(grouped_urls) ==
    [pc |-> "called", grouped_urls |-> grouped_urls, total_files |-> 0,
     files_downloaded |-> 0, all_success |-> TRUE, requests |-> 0,
     failed |-> FALSE, went_on |-> FALSE, result |-> FALSE]

\* App.__init__ (lines 105-106, 133): both boxes checked, the button enabled;
\* or download_grib_files called on its own
GuiInit ==
    /\ NoRun /\ NoReport
    /\ atm = [p |-> <<>>, h |-> <<>>]
    /\ \/ /\ gui = [button |-> "normal", cdr_var |-> TRUE, bwr_var |-> TRUE,
                    threads |-> <<>>, clicks |-> 0]
          /\ dl = [pc |-> "idle"]
       \/ /\ gui = [button |-> "none"]
          /\ dl \in {Called(<<>>),
                     Called(<<[block_name |-> "bwr_all", files_map |-> <<>>]>>),
                     Called(generate_gfs_urls(FALSE, TRUE))}

\* the user checks or unchecks a box
ToggleCheckbutton ==
    /\ gui.button # "none"
    /\ \/ gui' = [gui EXCEPT !.cdr_var = ~@]
       \/ gui' = [gui EXCEPT !.bwr_var = ~@]
    /\ UNCHANGED <<run_vars, report_vars, atm, dl>>

execute_task_leaves_button ==
    /\ gui.button = "normal"
    /\ gui.clicks < MaxClicks
    /\ IF ~gui.cdr_var /\ ~gui.bwr_var
       THEN gui' = [gui EXCEPT !.clicks = @ + 1]
       ELSE gui' = [gui EXCEPT !.clicks = @ + 1,
                               !.threads = Append(@, [pc |-> "started", how |-> ""])]
    /\ UNCHANGED <<run_vars, report_vars, atm, dl>>

\* lines 260-277, run by a click on the button, which a disabled button
\* does not take
execute_task ==
    /\ gui.button = "normal"
    /\ gui.clicks < MaxClicks
    /\ IF ~gui.cdr_var /\ ~gui.bwr_var
       THEN gui' = [gui EXCEPT !.clicks = @ + 1]
       ELSE gui' = [gui EXCEPT !.clicks = @ + 1,
                               !.button = "disabled",
                               !.threads = Append(@, [pc |-> "started", how |-> ""])]
    /\ UNCHANGED <<run_vars, report_vars, atm, dl>>

\* _download_and_process_task, lines 216-239: the boxes are read, the urls
\* generated; with nothing to download the thread returns at line 233,
\* otherwise it calls download_grib_files
download_and_process_task ==
    /\ gui.button # "none"
    /\ dl.pc = "idle"
    /\ \E t \in DOMAIN gui.threads :
          /\ gui.threads[t].pc = "started"
          /\ LET grouped_urls == generate_gfs_urls(gui.cdr_var, gui.bwr_var)
             IN  IF TotalFiles(grouped_urls) = 0
                 THEN /\ gui' = [gui EXCEPT !.threads[t] =
                                    [pc |-> "ended", how |-> "no_urls"]]
                      /\ dl' = dl
                 ELSE /\ gui' = [gui EXCEPT !.threads[t] =
                                    [pc |-> "downloading", how |-> ""]]
                      /\ dl' = Called(grouped_urls)
    /\ UNCHANGED <<run_vars, report_vars, atm>>

\* data_downloader.py lines 99-107: the return on an empty grouped_urls, the
\* total; with no file in any block the loops do nothing and line 140 returns
download_grib_files ==
    /\ dl.pc = "called"
    /\ dl' = IF dl.grouped_urls = <<>>
             THEN [dl EXCEPT !.pc = "returned", !.result = FALSE]
             ELSE IF TotalFiles(dl.grouped_urls) = 0
             THEN [dl EXCEPT !.pc = "returned", !.result = dl.all_success]
             ELSE [dl EXCEPT !.pc = "loop", !.total_files = TotalFiles(dl.grouped_urls)]
    /\ UNCHANGED <<run_vars, report_vars, atm, gui>>

DownloadFileStopsAtError ==
    /\ dl.pc = "loop"
    /\ \E outcome \in {"ok", "too_small", "request_error", "os_error"} :
          LET at == dl.requests + 1
              after == [dl EXCEPT !.requests = at,
                                  !.files_downloaded = IF outcome = "os_error" THEN @ ELSE @ + 1,
                                  !.all_success = @ /\ outcome = "ok",
                                  !.failed = @ \/ outcome # "ok",
                                  !.went_on = @ \/ dl.failed]
          IN  dl' = IF outcome = "os_error" THEN [after EXCEPT !.pc = "raised"]
                    ELSE IF at = dl.total_files \/ outcome = "request_error"
                    THEN [after EXCEPT !.pc = "returned", !.result = after.all_success]
                    ELSE after
    /\ UNCHANGED <<run_vars, report_vars, atm, gui>>

\* lines 113-137 for the next file of the loops of lines 109-112, and lines
\* 139-140 after the last one; an exception that is no RequestException
\* leaves the function.  What the request and the writing of the file come
\* to: the file written ("ok"), a response of less than 1000 bytes, a
\* RequestException, an OSError; failed and went_on record that a file
\* failed, and that a request was made after a file had failed
DownloadFile ==
    /\ dl.pc = "loop"
    /\ \E outcome \in {"ok", "too_small", "request_error", "os_error"} :
          LET at == dl.requests + 1
              after == [dl EXCEPT !.requests = at,
                                  !.files_downloaded = IF outcome = "os_error" THEN @ ELSE @ + 1,
                                  !.all_success = @ /\ outcome = "ok",
                                  !.failed = @ \/ outcome # "ok",
                                  !.went_on = @ \/ dl.failed]
          IN  dl' = IF outcome = "os_error" THEN [after EXCEPT !.pc = "raised"]
                    ELSE IF at = dl.total_files
                    THEN [after EXCEPT !.pc = "returned", !.result = after.all_success]
                    ELSE after
    /\ UNCHANGED <<run_vars, report_vars, atm, gui>>

\* _download_and_process_task, lines 242-258: success or not, or the except
\* clause, then the button is enabled and the thread ends
TaskFinish ==
    /\ gui.button # "none"
    /\ dl.pc \in {"returned", "raised"}
    /\ \E t \in DOMAIN gui.threads :
          /\ gui.threads[t].pc = "downloading"
          /\ gui' = [gui EXCEPT !.button = "normal",
                                !.threads[t].pc = "ended",
                                !.threads[t].how =
                                    IF dl.pc = "raised" THEN "exception"
                                    ELSE IF dl.result THEN "success" ELSE "failure"]
    /\ dl' = [pc |-> "idle"]
    /\ UNCHANGED <<run_vars, report_vars, atm>>

GuiNext ==
    \/ ToggleCheckbutton
    \/ execute_task
    \/ download_and_process_task
    \/ download_grib_files
    \/ DownloadFile
    \/ TaskFinish

GuiSpec == GuiInit /\ [][GuiNext]_vars

(***************************************************************************)
(* What the claims speak of: the header and the data rows of the dataset,  *)
(* the time stamp and the values of a row, the blocks of the artifact.     *)
(***************************************************************************)
HeaderRow == input_csv.rows[2]
DataRows == SubSeq(input_csv.rows, 3, Len(input_csv.rows))

RequiredColumns ==
    {COL_NAME, COL_YYYY, COL_MM, COL_DD, COL_HH}
        \cup {LevelColumns[i] : i \in DOMAIN LevelColumns}

HeaderPresent == input_csv.exists /\ Len(input_csv.rows) >= 2

HeaderComplete ==
    /\ HeaderPresent
    /\ \A c \in RequiredColumns : \E i \in DOMAIN HeaderRow : HeaderRow[i] = c

\* the first column of that name in the header h, 0 when there is none
ColumnIn(h, name) ==
    IF \E i \in DOMAIN h : h[i] = name
    THEN CHOOSE i \in DOMAIN h : h[i] = name /\ \A j \in 1..(i - 1) : h[j] # name
    ELSE 0

HasCellIn(h, row, name) == ColumnIn(h, name) \in 1..Len(row)
CellIn(h, row, name) == row[ColumnIn(h, name)]

TimeColumnNames == <<COL_YYYY, COL_MM, COL_DD, COL_HH>>

TimeParsesIn(h, row) ==
    \A c \in 1..4 : /\ HasCellIn(h, row, TimeColumnNames[c])
                    /\ ParseInt(CellIn(h, row, TimeColumnNames[c])).ok

StampIn(h, row) == [c \in 1..4 |-> ParseInt(CellIn(h, row, TimeColumnNames[c])).val]

\* the row names its area and has a finite number at u and v of every level
WellFormedIn(h, row) ==
    /\ HasCellIn(h, row, COL_NAME)
    /\ \A i \in DOMAIN LevelColumns :
          /\ HasCellIn(h, row, LevelColumns[i])
          /\ ParseFloat(CellIn(h, row, LevelColumns[i])).ok
          /\ IsFin(ParseFloat(CellIn(h, row, LevelColumns[i])).val)

\* what the claims ask of a row under a header, for the rows and headers of
\* the model
RowFacts ==
    [h \in AllHeaders, row \in AllRows |->
        [time_parses |-> TimeParsesIn(h, row),
         stamp |-> IF TimeParsesIn(h, row) THEN StampIn(h, row) ELSE <<>>,
         well_formed |-> WellFormedIn(h, row),
         has_name |-> HasCellIn(h, row, COL_NAME),
         missing_value |-> \E i \in DOMAIN LevelColumns :
                              \/ ~HasCellIn(h, row, LevelColumns[i])
                              \/ ~ParseFloat(CellIn(h, row, LevelColumns[i])).ok,
         data_points |-> DataPoints(row, HeaderIndicesTable[h].idx.level_indices, 1),
         area_line |-> IF HasCellIn(h, row, COL_NAME)
                       THEN "AREAM/" \o Str(CellIn(h, row, COL_NAME)) \o "//"
                       ELSE ""]]

TimeParses(row) == RowFacts[HeaderRow, row].time_parses
Stamp(row) == RowFacts[HeaderRow, row].stamp
WellFormed(row) == RowFacts[HeaderRow, row].well_formed
HasName(row) == RowFacts[HeaderRow, row].has_name
AreaLine(row) == RowFacts[HeaderRow, row].area_line

\* the requested forecast end, to the hour
Requested ==
    << args.end_forecast_dt.year, args.end_forecast_dt.month,
       args.end_forecast_dt.day, args.end_forecast_dt.hour >>

Matches(row) == TimeParses(row) /\ Stamp(row) = Requested

\* processing the row raises
Offending(row) ==
    \/ ~TimeParses(row)
    \/ ~ValidDate(Stamp(row)[1], Stamp(row)[2], Stamp(row)[3], Stamp(row)[4])
    \/ Matches(row) /\ ~WellFormed(row)

Yields(row) == Matches(row) /\ WellFormed(row)

YieldingRows == SelectSeq(DataRows, Yields)

AreaLinesOfRows ==
    {AreaLine(DataRows[k]) : k \in {j \in DOMAIN DataRows : HasName(DataRows[j])}}

IsAreaLine(line) == line \in AreaLinesOfRows

Occurrences(lines, line) == Cardinality({i \in DOMAIN lines : lines[i] = line})

Printed(msg) == Cardinality({i \in DOMAIN stdout : stdout[i].msg = msg})

RemoveAt(s, k) == SubSeq(s, 1, k - 1) \o SubSeq(s, k + 1, Len(s))

\* the bulletins a call produced
Bulletins(res) == IF res.status = "generated" THEN res.output_file.lines ELSE <<>>

Block(b) == SubSeq(left.lines, 8 * b - 7, 8 * b)

\* the printed message carries the number of rows scanned
TellsRowsScanned(m) == "scanned" \in DOMAIN m /\ m.scanned = Len(DataRows)

\* the LAYERM line of the row under the header of the dataset
LayerLineOfRow(row) ==
    LayerLineTable[row, HeaderIndicesTable[HeaderRow].idx.level_indices]

(***************************************************************************)
(* The claims.                                                             *)
(***************************************************************************)
\* C1: once a call has written the artifact, a well-formed data row has its
\* bulletin there if and only if its (yyyy, mm, dd, hh), read as integers,
\* equal the requested forecast end with minutes, seconds and microseconds
\* dropped.
C1_SelectedIffStampIsTargetHour ==
    (calls > 0 /\ status = "generated") =>
        \A k \in DOMAIN DataRows :
            WellFormed(DataRows[k]) =>
                (Occurrences(left.lines, AreaLine(DataRows[k])) > 0
                    <=> Matches(DataRows[k]))

\* C1 witness: a request at 06:30:15 took the row stamped hour 6 of that day
\* and left out a well-formed row of another hour or day.
C1_Witness ==
    /\ calls > 0 /\ status = "generated"
    /\ args.end_forecast_dt.minute = 30
    /\ \E k, j \in DOMAIN DataRows :
          /\ Yields(DataRows[k])
          /\ Occurrences(left.lines, AreaLine(DataRows[k])) = 1
          /\ WellFormed(DataRows[j]) /\ TimeParses(DataRows[j])
          /\ ~Matches(DataRows[j])
          /\ Occurrences(left.lines, AreaLine(DataRows[j])) = 0

\* C2: a row whose processing raises does not stop the run: the call ends
\* with the artifact written, one diagnostic is printed for each such row,
\* and the bulletins are those of the call on the dataset without that row.
C2_RowErrorNeverAborts ==
    (calls > 0 /\ HeaderComplete /\ Len(DataRows) > 0) =>
        /\ status = "generated"
        /\ Printed("Error processing row")
              = Cardinality({k \in DOMAIN DataRows : Offending(DataRows[k])})
        /\ \A k \in DOMAIN DataRows :
              Offending(DataRows[k]) =>
                  Bulletins(generate_reports(CsvFile(RemoveAt(input_csv.rows, k + 2)),
                                             before, args)) = left.lines

\* C2 witness: a row that raised came before a matching well-formed row, whose
\* bulletin is in the artifact.
C2_Witness ==
    /\ calls > 0 /\ HeaderComplete /\ Len(DataRows) > 1
    /\ Offending(DataRows[1])
    /\ Yields(DataRows[2])
    /\ Occurrences(left.lines, AreaLine(DataRows[2])) = 1
    /\ Printed("Error processing row") = 1

\* C3: when the header row lacks a required column the call ends at an early
\* return with its diagnostic printed: no row is processed, no count is
\* printed, and the artifact is as the call found it.
C3_MissingColumnAborts ==
    (calls > 0 /\ HeaderPresent /\ ~HeaderComplete) =>
        /\ status = (IF Len(DataRows) > 0 THEN "header_error" ELSE "empty_or_invalid")
        /\ Len(stdout) = 1
        /\ Printed("Error parsing CSV header") = (IF Len(DataRows) > 0 THEN 1 ELSE 0)
        /\ Printed("Error processing row") = 0
        /\ Printed("Generated BWR reports") = 0
        /\ left = before

\* C3 witness: the header lacks a column, a data row is stamped with the
\* requested hour, and the call found an artifact of an earlier writer.
C3_Witness ==
    /\ calls > 0 /\ HeaderPresent /\ ~HeaderComplete
    /\ status = "header_error"
    /\ before = File(<<"STALE">>)
    /\ \E k \in DOMAIN DataRows : DataRows[k] = GoodA
    /\ args.end_forecast_dt = DateTime(2025, 4, 16, 6, 0, 0, 0)

\* C4: after a call on a readable dataset whose header has every required
\* column, the artifact exists and holds the bulletins of this call and
\* nothing else, whatever it held and however many data rows there are.
C4_ArtifactIsThisRunsBatch ==
    (calls > 0 /\ HeaderComplete) =>
        /\ left.exists
        /\ Len(left.lines) = 8 * Len(YieldingRows)
        /\ Occurrences(left.lines, "STALE") = 0

\* C5: when no data row matches the requested time, the call completes, the
\* artifact is written with empty content and the count 0 is printed.
C5_ZeroMatchesWritesEmptyBatch ==
    (calls > 0 /\ HeaderComplete /\ \A k \in DOMAIN DataRows : ~Matches(DataRows[k])) =>
        /\ status = "generated"
        /\ left = File(<<>>)
        /\ \E i \in DOMAIN stdout : stdout[i] = Message("Generated BWR reports", 0)

\* C6: the artifact holds as many bulletins as there are data rows that match
\* and are well-formed; the AREAM line of a row's area occurs once for each
\* such row of that area, and not at all for an area without such a row.
C6_OneBulletinPerMatchingWellFormedRow ==
    (calls > 0 /\ status = "generated") =>
        /\ Len(left.lines) = 8 * Len(YieldingRows)
        /\ \A line \in AreaLinesOfRows :
              Occurrences(left.lines, line)
                  = Cardinality({k \in DOMAIN YieldingRows : AreaLine(YieldingRows[k]) = line})

\* C6 witness: two rows yield a bulletin each, or one row yields a bulletin
\* next to a row of the same hour on another day.
C6_Witness ==
    /\ calls > 0 /\ status = "generated"
    /\ Len(DataRows) = 2
    /\ \/ Len(YieldingRows) = 2 /\ Len(left.lines) = 16
       \/ /\ Len(YieldingRows) = 1 /\ Len(left.lines) = 8
          /\ \E k \in DOMAIN DataRows :
                /\ WellFormed(DataRows[k]) /\ TimeParses(DataRows[k])
                /\ Stamp(DataRows[k])[4] = Requested[4]
                /\ Stamp(DataRows[k])[3] # Requested[3]

\* C7: the AREAM lines of the artifact, in order, are the areas of the rows
\* that yield a bulletin, in the order of the rows in the dataset.
C7_BulletinsInRowOrder ==
    (calls > 0 /\ status = "generated") =>
        SelectSeq(left.lines, IsAreaLine)
            = [k \in DOMAIN YieldingRows |-> AreaLine(YieldingRows[k])]

\* C7 witness: two rows of different areas yield a bulletin each.
C7_Witness ==
    /\ calls > 0 /\ status = "generated"
    /\ Len(YieldingRows) = 2
    /\ AreaLine(YieldingRows[1]) # AreaLine(YieldingRows[2])
    /\ Len(left.lines) = 16

\* C8: a call on a dataset with a complete header and data rows prints the
\* number of bulletins produced, equal to the number of blocks in the
\* artifact, and the number of rows scanned.
C8_BulletinsAndRowsScannedReported ==
    (calls > 0 /\ HeaderComplete /\ Len(DataRows) > 0) =>
        /\ \E i \in DOMAIN stdout :
              /\ stdout[i].msg = "Generated BWR reports"
              /\ 8 * stdout[i].count = Len(left.lines)
        /\ \E i \in DOMAIN stdout : TellsRowsScanned(stdout[i])

\* C9: a second call on the same readable dataset, with a complete header and
\* the same arguments, leaves the artifact the first call left, whatever the
\* artifact held before either call.
C9_SecondRunLeavesSameArtifact ==
    (calls > 1 /\ HeaderComplete) => left = prev.left

\* C10: every block of the artifact is eight lines: the exercise tag, the
\* MSGID line, the GEODATUM line, the DTG line, the AREAM line of an area of
\* the dataset, the ZULUM line, the UNITM line and a LAYERM line.
C10_EightLinesInFixedOrder ==
    (calls > 0 /\ status = "generated") =>
        /\ Len(left.lines) % 8 = 0
        /\ \A b \in 1..(Len(left.lines) \div 8) :
              /\ Block(b)[1] \in {Str(args.exer), Str(args.exer) \o "//"}
              /\ Block(b)[2] = "MSGID/CBRN BWR/IMGW-PIB/-/-/-/-/-/-/-/-//"
              /\ Block(b)[3] = "GEODATUM/WGE//"
              /\ Block(b)[4] = DtgStr(args)
              /\ IsAreaLine(Block(b)[5])
              /\ Block(b)[6] = ZulumStr(args)
              /\ Block(b)[7] = "UNITM/-/DGG/KPH/-//"
              /\ \E k \in DOMAIN DataRows :
                    /\ LayerLineOfRow(DataRows[k]).ok
                    /\ Block(b)[8] = LayerLineOfRow(DataRows[k]).str

\* C10 witness: the artifact holds two blocks.
C10_Witness ==
    /\ calls > 0 /\ status = "generated"
    /\ Len(left.lines) = 16
    /\ Block(1)[5] # Block(2)[5]

\* C11: the LAYERM line is built from exactly 15 layers with tops 2, 4, ...,
\* 30 km in this order, each evaluated at (top - 1) * 1000 m, each rendered
\* with HH of exactly 2 digits and DDD and FFF of exactly 3 digits.
C11_FifteenLayersFixedWidth ==
    pc = "done" =>
        /\ Len(entries) = 15
        /\ \A i \in 1..15 :
              /\ entries[i].top = 2 * i
              /\ [u |-> entries[i].u, v |-> entries[i].v]
                    = WindAt(points, (2 * i - 1) * 10000)
              /\ entries[i].hh = ZeroPad(Digits(2 * i), 2)
              /\ Len(entries[i].hh) = 2
              /\ Len(entries[i].ddd) = 3 /\ AllDigits(entries[i].ddd)
              /\ Len(entries[i].fff) = 3 /\ AllDigits(entries[i].fff)

\* C12: the direction rendered in a layer entry lies in 0..359 (360 is never
\* emitted) and the rendered speed is an integer >= 0.
C12_DirectionBelow360 ==
    \A i \in DOMAIN entries :
        entries[i].ok =>
            /\ entries[i].direction \in 0..359
            /\ entries[i].speed \in Nat

\* what C13, C14, C19 and C20 speak of: the heights and the winds of the
\* samples, the target height of a layer, the first pair around a target
Heights == {points[i].h : i \in DOMAIN points}
LowestHeight == CHOOSE h \in Heights : \A g \in Heights : h <= g
HighestHeight == CHOOSE h \in Heights : \A g \in Heights : h >= g
AllFinite == \A i \in DOMAIN points : IsFin(points[i].u) /\ IsFin(points[i].v)
Target(e) == (e.top - 1) * 10000
IsSampleAt(e, h) ==
    \E i \in DOMAIN points : points[i].h = h /\ points[i].u = e.u /\ points[i].v = e.v
Between(x, a, b) == (a <= x /\ x <= b) \/ (b <= x /\ x <= a)

\* C13: a layer whose target height is strictly below the lowest sample gets
\* exactly the wind of a lowest sample, one strictly above the highest sample
\* exactly the wind of a highest sample, and no layer gets a u or a v that
\* is, to the hundredth of a metre per second, outside the range of the
\* samples (no extrapolation).
C13_BoundaryClamping ==
    (pc # "sort" /\ AllFinite) =>
        \A k \in DOMAIN entries :
            /\ Target(entries[k]) < LowestHeight => IsSampleAt(entries[k], LowestHeight)
            /\ Target(entries[k]) > HighestHeight => IsSampleAt(entries[k], HighestHeight)
            /\ \E i, j \in DOMAIN points :
                  Between(entries[k].u.val, points[i].u.val, points[j].u.val)
            /\ \E i, j \in DOMAIN points :
                  Between(entries[k].v.val, points[i].v.val, points[j].v.val)

\* C13 witness: all layers are built on samples of different winds and of
\* different heights, with layers below the lowest sample or above the highest.
C13_Witness ==
    /\ pc = "done" /\ Len(points) > 1
    /\ LowestHeight < HighestHeight
    /\ \E i, j \in DOMAIN points : points[i].u # points[j].u
    /\ \E k \in DOMAIN entries :
          \/ Target(entries[k]) < LowestHeight
          \/ Target(entries[k]) > HighestHeight

\* C14: on a profile of one sample every layer gets exactly the (u, v) of the
\* sample, its target height being below, on or above the sample.
C14_SingleSampleEverywhere ==
    (pc # "sort" /\ Len(points) = 1) =>
        /\ \A k \in DOMAIN entries :
              entries[k].u = points[1].u /\ entries[k].v = points[1].v
        /\ pc = "done" => Len(entries) = 15

\* C14 witness: one sample at 15 km: layers below it, on it and above it.
C14_Witness ==
    /\ pc = "done" /\ Len(points) = 1
    /\ points[1].u # Fin(0)
    /\ \E k \in DOMAIN entries : Target(entries[k]) < points[1].h
    /\ \E k \in DOMAIN entries : Target(entries[k]) = points[1].h
    /\ \E k \in DOMAIN entries : Target(entries[k]) > points[1].h

\* C15 speaks of the speed as the integer nearest to 3.6 * sqrt(u^2 + v^2):
\* with u, v in hundredths of m/s, |0.036 * sqrt(u^2 + v^2) - s| <= 1/2, checked
\* on the squares (in whole m/s above 50 m/s, where the samples are whole)
NearestKmh(s, u, v) ==
    IF u * u + v * v <= 25000000
    THEN /\ s > 0 => 15625 * (2 * s - 1) * (2 * s - 1) <= 81 * (u * u + v * v)
         /\ 81 * (u * u + v * v) <= 15625 * (2 * s + 1) * (2 * s + 1)
    ELSE LET q == (u \div 100) * (u \div 100) + (v \div 100) * (v \div 100)
         IN  (u % 100 = 0 /\ v % 100 = 0) =>
                 /\ 25 * (2 * s - 1) * (2 * s - 1) <= 1296 * q
                 /\ 1296 * q <= 25 * (2 * s + 1) * (2 * s + 1)

\* C15: the direction is the one the wind blows from: u = 0, v = 10 m/s gives
\* 180 and 36 km/h; a wind with only v > 0, only u > 0, only v < 0, only u < 0
\* gives 180, 270, 000, 090; the speed is 3.6 * sqrt(u^2 + v^2) rounded to the
\* nearest integer.
C15_DirectionWindBlowsFrom ==
    \A k \in DOMAIN entries :
        LET e == entries[k]
        IN  (e.ok /\ IsFin(e.u) /\ IsFin(e.v)) =>
              /\ (e.u.val = 0 /\ e.v.val = 1000) => (e.direction = 180 /\ e.speed = 36)
              /\ (e.u.val = 0 /\ e.v.val > 0) => e.ddd = <<"1", "8", "0">>
              /\ (e.u.val > 0 /\ e.v.val = 0) => e.ddd = <<"2", "7", "0">>
              /\ (e.u.val = 0 /\ e.v.val < 0) => e.ddd = <<"0", "0", "0">>
              /\ (e.u.val < 0 /\ e.v.val = 0) => e.ddd = <<"0", "9", "0">>
              /\ NearestKmh(e.speed, e.u.val, e.v.val)

\* C15 witness: the line of a profile whose wind is u = 0, v = 10 m/s is joined
\* with the entry 02/180/036.
C15_Witness ==
    /\ pc = "done"
    /\ entries[1].u = Fin(0) /\ entries[1].v = Fin(1000)
    /\ EntryStr(entries[1]).str = "02/180/036"

EndStamp ==
    LET t == args.end_forecast_dt
    IN  IF t.day = 16 /\ t.hour = 6 /\ t.minute = 0 THEN "160600ZAPR2025"
        ELSE IF t.day = 16 /\ t.hour = 6 /\ t.minute = 30 THEN "160630ZAPR2025"
        ELSE IF t.day = 16 /\ t.hour = 6 /\ t.minute = 59 THEN "160659ZAPR2025"
        ELSE IF t.day = 16 /\ t.hour = 7 /\ t.minute = 0 THEN "160700ZAPR2025"
        ELSE IF t.day = 17 /\ t.hour = 6 /\ t.minute = 0 THEN "170600ZAPR2025"
        ELSE ""

\* C17: the DTG and ZULUM lines are DDHHMMZMONYYYY timestamps, MON in upper
\* case, of the arguments of the call alone, the same in every bulletin of the
\* batch whatever the row: created 2025-04-14 19:33, model start 2025-04-14
\* 12:00, forecast start 2025-04-16 00:00 and forecast end 2025-04-16 06:00
\* give DTG/141933ZAPR2025// and
\* ZULUM/141200ZAPR2025/160000ZAPR2025/160600ZAPR2025//.
C17_TimestampsFromArguments ==
    (calls > 0 /\ status = "generated") =>
        \A b \in 1..(Len(left.lines) \div 8) :
            /\ Block(b)[4] = "DTG/141933ZAPR2025//"
            /\ Block(b)[6] = "ZULUM/141200ZAPR2025/160000ZAPR2025/" \o EndStamp \o "//"

\* C17 witness: a batch of two bulletins of different rows for the forecast
\* end 2025-04-16 06:00.
C17_Witness ==
    /\ calls > 0 /\ status = "generated"
    /\ args.end_forecast_dt = DateTime(2025, 4, 16, 6, 0, 0, 0)
    /\ Len(left.lines) = 16
    /\ Block(1)[8] # Block(2)[8]
    /\ Block(2)[6] = "ZULUM/141200ZAPR2025/160000ZAPR2025/160600ZAPR2025//"

\* C18: the file parse_bwr_to_csv writes meets what generate_reports reads:
\* row 0 is the metadata row, row 1 a header with bwr_name, yyyy, mm, dd, hh
\* and u{L}, v{L} for every level L of config.BWR_LEVELS_MB, the time fields
\* of every data row parse as integers, and no call ends at the header lookup.
C18_ParserFileMeetsContract ==
    /\ input_csv.exists =>
          /\ Len(input_csv.rows) >= 2
          /\ Len(input_csv.rows[1]) = 2
          /\ SubSeq(input_csv.rows[1][1], 1, 6) = <<"m", "o", "d", "e", "l", "=">>
          /\ SubSeq(input_csv.rows[1][2], 1, 6) = <<"c", "y", "c", "l", "e", "=">>
          /\ HeaderComplete
          /\ \A k \in DOMAIN DataRows : TimeParses(DataRows[k])
    /\ status # "header_error"

\* C18 witness: a call has read a file of four rows written by the parser and
\* has written the bulletins of the two rows of the requested hour.
C18_Witness ==
    /\ calls > 0 /\ status = "generated"
    /\ input_csv.exists /\ Len(input_csv.rows) = 6
    /\ Len(left.lines) = 16

\* the pairs of neighbours of the sorted profile a target height lies in
PairsAround(t) ==
    {i \in 1..(Len(points) - 1) : points[i].h <= t /\ t <= points[i + 1].h}
\* y is y1 + (t - x1) * (y2 - y1) / (x2 - x1) to the nearest hundredth
OnTheLine(y, t, x1, y1, x2, y2) ==
    LET d == (y - y1) * (x2 - x1) - (t - x1) * (y2 - y1)
    IN  2 * d <= x2 - x1 /\ -2 * d <= x2 - x1

\* C19: a layer whose target height lies within the heights of the sorted
\* profile is interpolated on the first pair of neighbours (p1, p2) with
\* p1.height <= target_h <= p2.height, the one of lowest index when several
\* pairs have the target: u and v are each y1 + (target_h - x1) * (y2 - y1) /
\* (x2 - x1).
C19_FirstPairInterpolated ==
    (pc # "sort" /\ AllFinite) =>
        \A k \in DOMAIN entries :
            LET t == Target(entries[k])
            IN  PairsAround(t) # {} =>
                  LET i == CHOOSE i \in PairsAround(t) : \A j \in PairsAround(t) : i <= j
                      p1 == points[i]
                      p2 == points[i + 1]
                  IN  IF p1.h = p2.h
                      THEN entries[k].u = p1.u /\ entries[k].v = p1.v
                      ELSE /\ OnTheLine(entries[k].u.val, t, p1.h, p1.u.val, p2.h, p2.u.val)
                           /\ OnTheLine(entries[k].v.val, t, p1.h, p1.v.val, p2.h, p2.v.val)

\* C19 witness: a layer strictly between two samples of different winds, and
\* a layer whose target two pairs have, the pairs giving different winds.
C19_Witness ==
    /\ pc = "done"
    /\ \E k \in DOMAIN entries :
          \E i \in PairsAround(Target(entries[k])) :
              /\ points[i].h < Target(entries[k])
              /\ Target(entries[k]) < points[i + 1].h
              /\ entries[k].u # points[i].u /\ entries[k].u # points[i + 1].u
    /\ \E k \in DOMAIN entries :
          /\ Cardinality(PairsAround(Target(entries[k]))) > 1
          /\ \E i \in PairsAround(Target(entries[k])) : points[i + 1].u # entries[k].u

\* C20: a profile with samples of equal height never makes the interpolation
\* fail: a pair with x1 = x2 gives y1, and each of the 15 layers gets a value.
C20_DuplicateHeightsNeverFail ==
    (pc # "sort" /\ AllFinite /\ Cardinality(Heights) < Len(points)) =>
        /\ pc # "raised"
        /\ pc = "done" => Len(entries) = 15
        /\ \A k \in DOMAIN entries :
              /\ entries[k].ok /\ IsFin(entries[k].u) /\ IsFin(entries[k].v)
              /\ LET around == PairsAround(Target(entries[k]))
                 IN  \A i \in around :
                        (points[i].h = points[i + 1].h /\ \A j \in around : i <= j) =>
                            entries[k].u = points[i].u /\ entries[k].v = points[i].v

\* C20 witness: the 15 layers of a profile with two samples of the height
\* 15 km and of different winds, the layer at 15 km taken from the first.
C20_Witness ==
    /\ pc = "done" /\ Len(entries) = 15
    /\ \E i \in 1..(Len(points) - 1) :
          /\ points[i].h = 150000 /\ points[i + 1].h = 150000
          /\ points[i].u # points[i + 1].u
          /\ (i > 1 => points[i - 1].h < 150000)
          /\ entries[8].u = points[i].u

\* C21: over the configured levels 900, 700, ..., 10 hPa the height grows
\* strictly as the pressure falls, in both branches and from one to the
\* other, so the sorted profile of a row is the list of the levels in this
\* order, the sample of each level in its place, no two of equal height.
C21_SortedProfileIsLevelList ==
    (input_csv.exists /\ (pc \in {"sort", "layers", "done"} \/ entries # <<>>)) =>
        /\ Len(points) = Len(BWR_LEVELS_MB)
        /\ \A i \in DOMAIN points :
              /\ points[i].u = ParseFloat(CellIn(HeaderRow, DataRows[1],
                                                 UCol(BWR_LEVELS_MB[i]))).val
              /\ points[i].v = ParseFloat(CellIn(HeaderRow, DataRows[1],
                                                 VCol(BWR_LEVELS_MB[i]))).val
        /\ \A i, j \in DOMAIN points :
              i < j => /\ BWR_LEVELS_MB[i] > BWR_LEVELS_MB[j]
                       /\ points[i].h < points[j].h

\* C21 witness: the 15 layers are built on the sorted profile of a row whose
\* u differs from level to level.
C21_Witness ==
    /\ input_csv.exists /\ pc = "done"
    /\ Len(points) = Len(BWR_LEVELS_MB)
    /\ \A i, j \in DOMAIN points : i # j => points[i].u # points[j].u

\* C22: the troposphere formula is taken exactly for a pressure above
\* 226.32 hPa and the stratosphere formula otherwise, 226.32 hPa itself
\* included; at 226.32 hPa the two formulas agree within one metre, and so do
\* the heights of two pressures within 0.01 hPa of it.
C22_BranchAtBoundary ==
    atm.h # <<>> =>
        /\ \A i \in 1..2 :
              /\ atm.p[i] > 22632 => atm.h[i] = TroposphereAt(atm.p[i])
              /\ atm.p[i] <= 22632 => atm.h[i] = StratosphereAt(atm.p[i])
              /\ atm.p[i] = 22632 =>
                    /\ atm.h[i] - TroposphereAt(22632) <= 10
                    /\ TroposphereAt(22632) - atm.h[i] <= 10
        /\ (atm.p[1] \in 22631..22633 /\ atm.p[2] \in 22631..22633) =>
              /\ atm.h[1] - atm.h[2] <= 10
              /\ atm.h[2] - atm.h[1] <= 10

\* C22 witness: the heights of 226.32 hPa and of 226.33 hPa are computed,
\* one by each formula.
C22_Witness ==
    /\ atm.p = <<22632, 22633>>
    /\ atm.h = <<StratosphereAt(22632), TroposphereAt(22633)>>
    /\ atm.h[1] # TroposphereAt(22632)

\* a level of the row has no u or no v, or one that is not a number
MissingValue(row) == RowFacts[HeaderRow, row].missing_value

\* C23: every bulletin of the artifact is the bulletin of a matching row
\* whose profile holds one sample for each configured level, every one of
\* them read from a numeric cell; a matching row with a missing or
\* non-numeric u or v at any level adds no bulletin: its area occurs only as
\* often as other rows of that area yield one.
C23_CompleteProfileOrNoBulletin ==
    (calls > 0 /\ status = "generated") =>
        /\ \A b \in 1..(Len(left.lines) \div 8) :
              /\ b <= Len(YieldingRows)
              /\ ~MissingValue(YieldingRows[b])
              /\ Block(b)[5] = AreaLine(YieldingRows[b])
              /\ Block(b)[8] = LayerLineOfRow(YieldingRows[b]).str
              /\ LET data_points == RowFacts[HeaderRow, YieldingRows[b]].data_points
                 IN  /\ Len(data_points) = Len(BWR_LEVELS_MB)
                     /\ \A i \in DOMAIN data_points :
                           /\ data_points[i].ok
                           /\ data_points[i].h = pressure_to_height_std(BWR_LEVELS_MB[i])
        /\ \A k \in DOMAIN DataRows :
              (Matches(DataRows[k]) /\ MissingValue(DataRows[k]) /\ HasName(DataRows[k])) =>
                  Occurrences(left.lines, AreaLine(DataRows[k]))
                      = Cardinality({j \in DOMAIN DataRows :
                                        /\ Yields(DataRows[j])
                                        /\ AreaLine(DataRows[j]) = AreaLine(DataRows[k])})

\* C23 witness: the artifact holds the bulletin of one row, and the dataset
\* holds another matching row with a missing or non-numeric value.
C23_Witness ==
    /\ calls > 0 /\ status = "generated"
    /\ Len(left.lines) = 8
    /\ \E k \in DOMAIN DataRows :
          /\ Matches(DataRows[k]) /\ MissingValue(DataRows[k]) /\ HasName(DataRows[k])
          /\ Occurrences(left.lines, AreaLine(DataRows[k])) = 0

\* the bulletins of a call on the dataset that holds this row alone under
\* the header, with the arguments of the run
BulletinAlone(row) ==
    Bulletins(generate_reports(CsvFile(<<input_csv.rows[1], HeaderRow, row>>),
                               NoFile, args))

\* C24: the bulletin of a row that yields one is the bulletin the same
\* arguments give on the dataset holding that row alone: whatever the other
\* rows of the dataset are, and wherever the row stands among them, they
\* leave it unchanged.
C24_BulletinOfRowAlone ==
    (calls > 0 /\ status = "generated") =>
        /\ Len(left.lines) = 8 * Len(YieldingRows)
        /\ \A b \in DOMAIN YieldingRows : Block(b) = BulletinAlone(YieldingRows[b])

\* C24 witness: the artifact holds the bulletins of two rows of different
\* profiles, or the bulletin of a row that stands behind a row that raised.
C24_Witness ==
    /\ calls > 0 /\ status = "generated"
    /\ \/ /\ Len(left.lines) = 16
          /\ Block(1)[8] # Block(2)[8]
          /\ Block(2) = BulletinAlone(DataRows[2])
       \/ /\ Len(left.lines) = 8
          /\ Len(DataRows) = 2
          /\ Offending(DataRows[1])
          /\ Block(1) = BulletinAlone(DataRows[2])

\* the threads of _download_and_process_task that have not ended
RunningThreads == {t \in DOMAIN gui.threads : gui.threads[t].pc # "ended"}

\* C25: at any time at most one thread of _download_and_process_task is
\* running, and while one is running the button is disabled.
C25_OneTaskAndButtonDisabled ==
    gui.button # "none" =>
        /\ Cardinality(RunningThreads) <= 1
        /\ RunningThreads # {} => gui.button = "disabled"

\* C25 witness: a second thread is downloading, after the first has ended
\* and the button was clicked again.
C25_Witness ==
    /\ gui.button = "disabled"
    /\ Len(gui.threads) = 2
    /\ gui.threads[1].pc = "ended"
    /\ gui.threads[2].pc = "downloading"
    /\ dl.pc = "loop" /\ dl.requests > 0

\* C26: once every thread that was started has ended, by whichever path, the
\* button is enabled.
C26_ButtonEnabledAfterTask ==
    (gui.button # "none" /\ gui.threads # <<>> /\ RunningThreads = {}) =>
        gui.button = "normal"

\* C27: the block bwr_all that generate_gfs_urls gave the thread of the
\* window, which hands it to download_grib_files, holds one file for each
\* hour of FCT_HOURS_BWR, whose request switches on every level of
\* BWR_LEVELS_MB, and every file name of the block is accepted by
\* FILENAME_PATTERN.
C27_OneAcceptedFilePerHour ==
    (gui.button # "none" /\ dl.pc # "idle") =>
        \A g \in DOMAIN dl.grouped_urls :
            LET block == dl.grouped_urls[g]
            IN  block.block_name = "bwr_all" =>
                    /\ Len(block.files_map) = Len(FCT_HOURS_BWR)
                    /\ \A n \in DOMAIN block.files_map :
                          /\ FILENAME_PATTERN(block.files_map[n].filename)
                          /\ block.files_map[n].fct_str = "f" \o PadInt(FCT_HOURS_BWR[n], 3)
                          /\ Len(block.files_map[n].levels) = Len(BWR_LEVELS_MB)

\* C28: when download_grib_files returns, then on an empty grouped_urls it
\* returns False and has made no request; otherwise it has made a request
\* for every file of every block, its counter of processed files equals the
\* total, and it returns True exactly when no file failed.
C28_EveryFileAttempted ==
    dl.pc = "returned" =>
        /\ dl.grouped_urls = <<>> => (~dl.result /\ dl.requests = 0)
        /\ dl.grouped_urls # <<>> =>
              /\ dl.requests = TotalFiles(dl.grouped_urls)
              /\ dl.files_downloaded = TotalFiles(dl.grouped_urls)
              /\ dl.result = ~dl.failed

\* C28 witness: the call returns False after a failure on a file that was
\* not the last, with every file processed.
C28_Witness ==
    /\ dl.pc = "returned"
    /\ dl.failed /\ dl.went_on
    /\ dl.files_downloaded = TotalFiles(dl.grouped_urls)
    /\ ~dl.result

\* a <= b as doubles
FloatLeq(a, b) == a.val < b.val \/ (a.val = b.val /\ a.ulp <= b.ulp)
FloatBetween(x, a, b) ==
    (FloatLeq(a, x) /\ FloatLeq(x, b)) \/ (FloatLeq(b, x) /\ FloatLeq(x, a))

TagTerminated ==
    /\ Len(args.exer) >= 2
    /\ args.exer[Len(args.exer) - 1] = "/"
    /\ args.exer[Len(args.exer)] = "/"

\* C30: the first line of every bulletin of the artifact is the exercise tag
\* itself when the tag ends with "//", and the tag with "//" appended when it
\* does not; it is the same line in every bulletin, and normalising it once
\* more leaves it unchanged.
C30_FirstLineTerminatedOnce ==
    (calls > 0 /\ status = "generated") =>
        /\ \A b \in 1..(Len(left.lines) \div 8) :
              /\ TagTerminated => Block(b)[1] = Str(args.exer)
              /\ ~TagTerminated => Block(b)[1] = Str(args.exer) \o "//"
              /\ Block(b)[1] = Block(1)[1]
              /\ Block(b)[1] = Str(NormalizeExer(NormalizeExer(args.exer)))

\* C30 witness: the artifact holds two bulletins of a run whose exercise tag
\* already ends with "//".
C30_Witness ==
    /\ calls > 0 /\ status = "generated"
    /\ TagTerminated
    /\ Len(left.lines) = 16
    /\ Block(2)[1] = Str(args.exer)

====
